---- MODULE Spec2Model ----
(***************************************************************************)
(* Model of the soft-assertion accumulator `Assert` (src/src/lib/assert.ts) *)
(* and of `throwAssertionErrors` (src/src/lib/helper/LogHelper.ts).         *)
(*                                                                         *)
(* JavaScript values are records of one fixed shape, so that any two of    *)
(* them can be compared:                                                   *)
(*   k   the kind: "undefined", "null", "boolean", "number", "string",     *)
(*       "array" or "object" (a plain mapping)                             *)
(*   b   the truth value of a boolean                                      *)
(*   n   the value of a finite number                                      *)
(*   sp  "" for a finite number, else "NaN", "Infinity" or "-Infinity"     *)
(*   s   the characters of a string                                        *)
(*   a   the elements of an array / the values of a mapping, in key order  *)
(*   ks  the keys of a mapping, in insertion order                         *)
(* Elements of arrays and values of mappings are primitive values, so      *)
(* reference identity never decides a comparison.                          *)
(*                                                                         *)
(* A text (a JavaScript string built by the program) is a sequence of      *)
(* chunks whose concatenation is the string.  Strings that the program     *)
(* inspects (values, keys) are sequences of one-character chunks.          *)
(***************************************************************************)
EXTENDS Integers, Sequences, FiniteSets

\* ------------------------------------------------------------------------
\* Bounds of the model
\* ------------------------------------------------------------------------
\* soft checks are called while fewer than MaxPending failures are pending
MaxPending == 2
\* finite numbers of the value universe are -1 .. MaxNum
MaxNum == 2
\* arrays of the value universe have at most MaxLen elements
MaxLen == 2

\* ------------------------------------------------------------------------
\* JavaScript values
\* ------------------------------------------------------------------------
Undefined == [k |-> "undefined", b |-> FALSE, n |-> 0, sp |-> "", s |-> <<>>, a |-> <<>>, ks |-> <<>>]
Null == [Undefined EXCEPT !.k = "null"]
Bool(x) == [Undefined EXCEPT !.k = "boolean", !.b = x]
Num(x) == [Undefined EXCEPT !.k = "number", !.n = x]
NaN == [Undefined EXCEPT !.k = "number", !.sp = "NaN"]
Infinity == [Undefined EXCEPT !.k = "number", !.sp = "Infinity"]
NegInfinity == [Undefined EXCEPT !.k = "number", !.sp = "-Infinity"]
Str(chars) == [Undefined EXCEPT !.k = "string", !.s = chars]
Arr(elems) == [Undefined EXCEPT !.k = "array", !.a = elems]
Obj(keys, vals) == [Undefined EXCEPT !.k = "object", !.ks = keys, !.a = vals]

\* typeof value
TypeOf(v) ==
  CASE v.k = "undefined" -> "undefined"
    [] v.k = "boolean" -> "boolean"
    [] v.k = "number" -> "number"
    [] v.k = "string" -> "string"
    [] OTHER -> "object"

\* ToBoolean(value): the truthiness that `if (value)` and `!value` test
ToBoolean(v) ==
  CASE v.k = "undefined" -> FALSE
    [] v.k = "null" -> FALSE
    [] v.k = "boolean" -> v.b
    [] v.k = "number" -> IF v.sp = "" THEN v.n # 0 ELSE v.sp # "NaN"
    [] v.k = "string" -> Len(v.s) > 0
    [] OTHER -> TRUE

\* ------------------------------------------------------------------------
\* Conversions to text
\* ------------------------------------------------------------------------
Digit(d) == <<"0", "1", "2", "3", "4", "5", "6", "7", "8", "9">>[d + 1]

RECURSIVE NatToString(_)
NatToString(i) == IF i < 10 THEN <<Digit(i)>> ELSE NatToString(i \div 10) \o <<Digit(i % 10)>>

\* Number::toString for the integers and the three non-finite numbers
NumberToString(v) ==
  CASE v.sp = "NaN" -> <<"N", "a", "N">>
    [] v.sp = "Infinity" -> <<"I", "n", "f", "i", "n", "i", "t", "y">>
    [] v.sp = "-Infinity" -> <<"-", "I", "n", "f", "i", "n", "i", "t", "y">>
    [] OTHER -> IF v.n < 0 THEN <<"-">> \o NatToString(0 - v.n) ELSE NatToString(v.n)

RECURSIVE Join(_, _)
\* Array.prototype.join: the texts of parts separated by sep
Join(parts, sep) ==
  IF Len(parts) = 0 THEN <<>>
  ELSE IF Len(parts) = 1 THEN parts[1]
  ELSE parts[1] \o sep \o Join(Tail(parts), sep)

\* ToString of a primitive value
PrimToString(v) ==
  CASE v.k = "undefined" -> <<"u", "n", "d", "e", "f", "i", "n", "e", "d">>
    [] v.k = "null" -> <<"n", "u", "l", "l">>
    [] v.k = "boolean" -> IF v.b THEN <<"t", "r", "u", "e">> ELSE <<"f", "a", "l", "s", "e">>
    [] v.k = "number" -> NumberToString(v)
    [] OTHER -> v.s

\* ToString(value), the conversion of `${value}`: an array is its elements
\* joined by "," (null and undefined elements are empty), a plain mapping is
\* "[object Object]"
ToString(v) ==
  CASE v.k = "array" ->
         Join([i \in 1..Len(v.a) |->
                 IF v.a[i].k \in {"undefined", "null"} THEN <<>> ELSE PrimToString(v.a[i])],
              <<",">>)
    [] v.k = "object" ->
         <<"[", "o", "b", "j", "e", "c", "t", " ", "O", "b", "j", "e", "c", "t", "]">>
    [] OTHER -> PrimToString(v)

\* JSON.stringify of a primitive that is an element or a property value:
\* undefined and the non-finite numbers are rendered null, strings are quoted
JSONPrim(v) ==
  CASE v.k = "undefined" -> <<"n", "u", "l", "l">>
    [] v.k = "number" -> IF v.sp = "" THEN NumberToString(v) ELSE <<"n", "u", "l", "l">>
    [] v.k = "string" -> <<"\"">> \o v.s \o <<"\"">>
    [] OTHER -> PrimToString(v)

\* `${JSON.stringify(value)}`: JSON.stringify(undefined) is undefined, which
\* the template renders as "undefined"; properties whose value is undefined
\* are left out of a mapping
JSONStringify(v) ==
  CASE v.k = "undefined" -> PrimToString(v)
    [] v.k = "array" ->
         <<"[">> \o Join([i \in 1..Len(v.a) |-> JSONPrim(v.a[i])], <<",">>) \o <<"]">>
    [] v.k = "object" ->
         LET shown == SelectSeq([i \in 1..Len(v.ks) |-> i], LAMBDA i : v.a[i].k # "undefined")
         IN <<"{">> \o Join([j \in 1..Len(shown) |->
                               <<"\"">> \o v.ks[shown[j]] \o <<"\"", ":">> \o JSONPrim(v.a[shown[j]])],
                            <<",">>) \o <<"}">>
    [] OTHER -> JSONPrim(v)

\* ------------------------------------------------------------------------
\* Comparison operators of the language
\* ------------------------------------------------------------------------
LowerCase == <<"a", "b", "c", "d", "e", "f", "g", "h", "i", "j", "k", "l", "m",
               "n", "o", "p", "q", "r", "s", "t", "u", "v", "w", "x", "y", "z">>
UpperCase == <<"A", "B", "C", "D", "E", "F", "G", "H", "I", "J", "K", "L", "M",
               "N", "O", "P", "Q", "R", "S", "T", "U", "V", "W", "X", "Y", "Z">>
Digits == <<"0", "1", "2", "3", "4", "5", "6", "7", "8", "9">>

IndexIn(seq, c) == CHOOSE i \in 1..Len(seq) : seq[i] = c
IsIn(seq, c) == \E i \in 1..Len(seq) : seq[i] = c

\* the UTF-16 code unit of a character, which orders strings
CharCode(c) ==
  CASE IsIn(LowerCase, c) -> 96 + IndexIn(LowerCase, c)
    [] IsIn(UpperCase, c) -> 64 + IndexIn(UpperCase, c)
    [] IsIn(Digits, c) -> 47 + IndexIn(Digits, c)
    [] c = " " -> 32
    [] c = "!" -> 33
    [] c = "\"" -> 34
    [] c = "," -> 44
    [] c = "-" -> 45
    [] c = ":" -> 58
    [] c = "[" -> 91
    [] c = "]" -> 93
    [] c = "{" -> 123
    [] c = "}" -> 125

RECURSIVE StringLess(_, _)
\* x < y for two strings: lexicographic order of the code units
StringLess(x, y) ==
  IF Len(y) = 0 THEN FALSE
  ELSE IF Len(x) = 0 THEN TRUE
  ELSE IF x[1] = y[1] THEN StringLess(Tail(x), Tail(y))
  ELSE CharCode(x[1]) < CharCode(y[1])

RECURSIVE TrimLeft(_)
TrimLeft(x) == IF Len(x) > 0 /\ x[1] = " " THEN TrimLeft(Tail(x)) ELSE x
RECURSIVE TrimRight(_)
TrimRight(x) ==
  IF Len(x) > 0 /\ x[Len(x)] = " " THEN TrimRight(SubSeq(x, 1, Len(x) - 1)) ELSE x

RECURSIVE DigitsValue(_)
DigitsValue(x) ==
  IF Len(x) = 0 THEN 0
  ELSE 10 * DigitsValue(SubSeq(x, 1, Len(x) - 1)) + (IndexIn(Digits, x[Len(x)]) - 1)

AllDigits(x) == Len(x) > 0 /\ \A i \in 1..Len(x) : IsIn(Digits, x[i])

\* StringToNumber for strings without a fraction, an exponent or a radix
\* prefix: blank is 0, an optionally signed run of digits is its value,
\* anything else is NaN
StringToNumber(chars) ==
  LET x == TrimRight(TrimLeft(chars))
  IN IF Len(x) = 0 THEN Num(0)
     ELSE IF AllDigits(x) THEN Num(DigitsValue(x))
     ELSE IF x[1] = "-" /\ AllDigits(Tail(x)) THEN Num(0 - DigitsValue(Tail(x)))
     ELSE IF x[1] = "+" /\ AllDigits(Tail(x)) THEN Num(DigitsValue(Tail(x)))
     ELSE NaN

\* ToPrimitive(value): arrays and plain mappings convert through toString
ToPrimitive(v) == IF v.k \in {"array", "object"} THEN Str(ToString(v)) ELSE v

\* ToNumber of a primitive value
ToNumber(p) ==
  CASE p.k = "undefined" -> NaN
    [] p.k = "null" -> Num(0)
    [] p.k = "boolean" -> IF p.b THEN Num(1) ELSE Num(0)
    [] p.k = "string" -> StringToNumber(p.s)
    [] OTHER -> p

\* x < y for two numbers; "undefined" when either is NaN
NumberLess(x, y) ==
  IF x.sp = "NaN" \/ y.sp = "NaN" THEN "undefined"
  ELSE IF x = y THEN "false"
  ELSE IF x.sp = "Infinity" THEN "false"
  ELSE IF y.sp = "Infinity" THEN "true"
  ELSE IF y.sp = "-Infinity" THEN "false"
  ELSE IF x.sp = "-Infinity" THEN "true"
  ELSE IF x.n < y.n THEN "true" ELSE "false"

\* the abstract relational comparison x < y: "true", "false" or "undefined"
IsLessThan(x, y) ==
  LET px == ToPrimitive(x)
      py == ToPrimitive(y)
  IN IF px.k = "string" /\ py.k = "string"
     THEN (IF StringLess(px.s, py.s) THEN "true" ELSE "false")
     ELSE NumberLess(ToNumber(px), ToNumber(py))

\* actual <= expected
LessOrEqual(actual, expected) == IsLessThan(expected, actual) = "false"
\* actual >= expected
GreaterOrEqual(actual, expected) == IsLessThan(actual, expected) = "false"

\* x === y on primitives, where NaN is also equal to NaN (SameValueZero);
\* an array or a mapping is identical to no element of another value
SameValueZero(x, y) == x.k \notin {"array", "object"} /\ x = y

\* ------------------------------------------------------------------------
\* lodash
\* ------------------------------------------------------------------------
lodash_isArray(v) == v.k = "array"
lodash_isObject(v) == v.k \in {"array", "object"}
lodash_isString(v) == v.k = "string"
\* _.isNaN: a number that is not equal to itself
lodash_isNaN(v) == v.k = "number" /\ v.sp = "NaN"

\* _.isEmpty: null and undefined are empty, a string or an array is empty
\* when its length is 0, a mapping when it has no own key, and a number or
\* a boolean has no own enumerable key
lodash_isEmpty(v) ==
  CASE v.k \in {"string"} -> Len(v.s) = 0
    [] v.k = "array" -> Len(v.a) = 0
    [] v.k = "object" -> Len(v.ks) = 0
    [] OTHER -> TRUE

\* Object.prototype.hasOwnProperty.call(value, key)
HasOwn(v, key) ==
  CASE v.k = "object" -> IsIn(v.ks, key)
    [] v.k = "array" ->
         key = <<"l", "e", "n", "g", "t", "h">>
         \/ \E i \in 1..Len(v.a) : NatToString(i - 1) = key
    [] v.k = "string" ->
         key = <<"l", "e", "n", "g", "t", "h">>
         \/ \E i \in 1..Len(v.s) : NatToString(i - 1) = key
    [] OTHER -> FALSE

\* value[key] for an own property
GetOwn(v, key) ==
  CASE v.k = "object" -> v.a[IndexIn(v.ks, key)]
    [] v.k = "array" ->
         IF key = <<"l", "e", "n", "g", "t", "h">> THEN Num(Len(v.a))
         ELSE v.a[CHOOSE i \in 1..Len(v.a) : NatToString(i - 1) = key]
    [] v.k = "string" ->
         IF key = <<"l", "e", "n", "g", "t", "h">> THEN Num(Len(v.s))
         ELSE Str(<<v.s[CHOOSE i \in 1..Len(v.s) : NatToString(i - 1) = key]>>)

RECURSIVE lodash_isEqual(_, _)
\* _.isEqual: deep comparison by value; arrays element by element in order,
\* mappings key by key whatever the order of the keys, NaN equal to NaN
lodash_isEqual(x, y) ==
  IF x.k # y.k THEN FALSE
  ELSE IF x.k = "array"
       THEN Len(x.a) = Len(y.a) /\ \A i \in 1..Len(x.a) : lodash_isEqual(x.a[i], y.a[i])
  ELSE IF x.k = "object"
       THEN /\ Len(x.ks) = Len(y.ks)
            /\ \A i \in 1..Len(x.ks) :
                 HasOwn(y, x.ks[i]) /\ lodash_isEqual(x.a[i], GetOwn(y, x.ks[i]))
  ELSE x = y

\* castPath(path, object) of _.has: an array is the path itself, a key is a
\* path of one key (no string of the universe holds "." or "["), a mapping
\* is parsed from "[object Object]" into the one key "object Object"
CastPath(path) ==
  CASE path.k = "array" -> [i \in 1..Len(path.a) |-> ToString(path.a[i])]
    [] path.k = "object" ->
         << <<"o", "b", "j", "e", "c", "t", " ", "O", "b", "j", "e", "c", "t">> >>
    [] OTHER -> <<ToString(path)>>

RECURSIVE HasPath(_, _)
\* hasPath: every key of the path is an own property of the value reached
HasPath(object, keys) ==
  IF Len(keys) = 0 THEN TRUE
  ELSE HasOwn(object, keys[1]) /\ HasPath(GetOwn(object, keys[1]), Tail(keys))

\* _.has(object, path); the empty path is not found
lodash_has(object, path) ==
  LET keys == CastPath(path) IN Len(keys) > 0 /\ HasPath(object, keys)

\* String.prototype.indexOf(part) > -1
IsSubstring(part, whole) ==
  \E i \in 0..(Len(whole) - Len(part)) : SubSeq(whole, i + 1, i + Len(part)) = part

\* _.includes(collection, value): a string is searched for ToString(value),
\* an array (or the values of a mapping) for an element that is the same
\* value; a number, a boolean, null and undefined have no values
lodash_includes(collection, value) ==
  CASE collection.k = "string" -> IsSubstring(ToString(value), collection.s)
    [] collection.k \in {"array", "object"} ->
         \E i \in 1..Len(collection.a) : SameValueZero(collection.a[i], value)
    [] OTHER -> FALSE

\* ------------------------------------------------------------------------
\* State
\* ------------------------------------------------------------------------
VARIABLES
  assertionErrors,  \* Assert.assertionErrors: the pending failure records
  control,          \* "running": the caller executes; "unwinding": an error
                    \* thrown by the last call is propagating
  thrown,           \* the message of the error that is propagating, or NoError
  last,             \* history: the last call, its arguments, and whether it
                    \* recorded a failure
  recorded,         \* history: the calls that recorded a failure since the
                    \* last drain (or the construction), in call order
  scenario,         \* history: how many steps of the scenario of ScenarioCalls
                    \* followed by assertAll were made, in order, since
                    \* construction; -1 once the caller left the scenario
  others,           \* assertionErrors of the second instance, the one that
                    \* is not the receiver of the calls
  this,             \* which of the two instances (1 or 2) receives the calls
  variant,          \* the class of the object under test: "Assert", or one
                    \* of the MagicAssert classes
  instance,         \* AssertionLibrary.instance (static): 0 for undefined,
                    \* or the place of the object in heap
  heap,             \* the AssertionLibrary objects constructed so far, each
                    \* given by its assertionErrors
  refs,             \* the reference each call site got from getInstance
                    \* (0: none yet)
  tasks             \* the asynchronous element checks that were called, each
                    \* with its position and the state of its promise

\* the objects that a call on the Assert under test does not touch
otherObjects == <<others, this, variant, instance, heap, refs, tasks>>

vars == <<assertionErrors, control, thrown, last, recorded, scenario,
          others, this, variant, instance, heap, refs, tasks>>

NoError == <<>>

\* the frames that follow the first line of error.stack
StackFrames == "\n    at <stack frames>"

\* new Error(text).stack
ErrorStack(text) == <<"Error: ">> \o text \o <<StackFrames>>

\* { message: `${error.stack}` } for error = new Error(text)
FailureRecord(text) == [message |-> ErrorStack(text)]

\* the character U+274C (cross mark) that opens every entry of the report;
\* the module is written in ASCII, so the chunk names the character
CrossMark == "U+274C"

\* a faulty throwAssertionErrors that reports the first entry only; C22
\* tells it apart
throwAssertionErrors_firstOnly(errorMessageData) ==
  <<"Assertion errors detected. See details below (expand in Allure report):\n">>
  \o <<CrossMark, " [Assertion ">> \o NatToString(1) \o <<"]: \n">>
  \o errorMessageData[1].message \o <<"\n">>

\* a faulty throwAssertionErrors that lists the entries last first; C6 tells
\* it apart
throwAssertionErrors_reversed(errorMessageData) ==
  <<"Assertion errors detected. See details below (expand in Allure report):\n">>
  \o Join([index \in 1..Len(errorMessageData) |->
             <<CrossMark, " [Assertion ">> \o NatToString((index - 1) + 1) \o <<"]: \n">>
             \o errorMessageData[Len(errorMessageData) + 1 - index].message \o <<"\n">>],
          <<"\n">>)

\* a faulty throwAssertionErrors that numbers the entries from 0; C7 tells it
\* apart
throwAssertionErrors_fromZero(errorMessageData) ==
  <<"Assertion errors detected. See details below (expand in Allure report):\n">>
  \o Join([index \in 1..Len(errorMessageData) |->
             <<CrossMark, " [Assertion ">> \o NatToString(index - 1) \o <<"]: \n">>
             \o errorMessageData[index].message \o <<"\n">>],
          <<"\n">>)

\* throwAssertionErrors(errorMessageData): the message of the error it throws
throwAssertionErrors(errorMessageData) ==
  <<"Assertion errors detected. See details below (expand in Allure report):\n">>
  \o Join([index \in 1..Len(errorMessageData) |->
             <<CrossMark, " [Assertion ">> \o NatToString((index - 1) + 1) \o <<"]: \n">>
             \o errorMessageData[index].message \o <<"\n">>],
          <<"\n">>)

\* a faulty assertAll that raises only for more than one pending failure; C2
\* tells it apart
assertAllOn_moreThanOne(pending) ==
  IF Len(pending) > 1
  THEN /\ assertionErrors' = <<>>
       /\ thrown' = throwAssertionErrors(pending)
       /\ control' = "unwinding"
  ELSE /\ assertionErrors' = pending
       /\ UNCHANGED <<control, thrown>>

\* a faulty assertAll that raises without clearing the list; C3 tells it apart
assertAllOn_keepsList(pending) ==
  IF Len(pending) # 0
  THEN /\ assertionErrors' = pending
       /\ thrown' = throwAssertionErrors(pending)
       /\ control' = "unwinding"
  ELSE /\ assertionErrors' = pending
       /\ UNCHANGED <<control, thrown>>

\* the body of assertAll, run when this.assertionErrors is `pending`
assertAllOn(pending) ==
  IF Len(pending) # 0
  THEN /\ assertionErrors' = <<>>
       /\ thrown' = throwAssertionErrors(pending)
       /\ control' = "unwinding"
  ELSE /\ assertionErrors' = pending
       /\ UNCHANGED <<control, thrown>>

\* the condition of includes and strictIncludes
IncludesCondition(actual, expected) ==
  IF lodash_isObject(actual) /\ ~lodash_isArray(actual)
  THEN lodash_has(actual, expected)
  ELSE lodash_includes(actual, expected)

\* ------------------------------------------------------------------------
\* Assert: the soft checks
\* Each records a failure when its condition holds and returns; none calls
\* assertAll.  A call is made while the caller is running.
\* ------------------------------------------------------------------------

\* a faulty equals whose message leaves out the caller's description; C20
\* tells it apart
equals_noDescription(actual, expected, message) ==
  /\ control = "running"
  /\ assertionErrors' =
       IF ~lodash_isEqual(actual, expected)
       THEN Append(assertionErrors,
                   FailureRecord(<<"[Assertion failed: ", "equals", "] ">>
                                 \o <<"\n  Expected: ">> \o ToString(expected) \o <<"\n  Actual: ">> \o ToString(actual)))
       ELSE assertionErrors
  /\ UNCHANGED <<control, thrown>>

\* a faulty equals that compares the two representations, so that two
\* mappings with the same pairs in another order differ; C14 tells it apart
equals_shallow(actual, expected, message) ==
  /\ control = "running"
  /\ assertionErrors' =
       IF actual # expected
       THEN Append(assertionErrors,
                   FailureRecord(<<"[Assertion failed: ", "equals", "] ">> \o message
                                 \o <<"\n  Expected: ">> \o ToString(expected) \o <<"\n  Actual: ">> \o ToString(actual)))
       ELSE assertionErrors
  /\ UNCHANGED <<control, thrown>>

equals(actual, expected, message) ==
  /\ control = "running"
  /\ assertionErrors' =
       IF ~lodash_isEqual(actual, expected)
       THEN Append(assertionErrors,
                   FailureRecord(<<"[Assertion failed: ", "equals", "] ">> \o message
                                 \o <<"\n  Expected: ">> \o ToString(expected) \o <<"\n  Actual: ">> \o ToString(actual)))
       ELSE assertionErrors
  /\ UNCHANGED <<control, thrown>>

includes(actual, expected, message) ==
  /\ control = "running"
  /\ assertionErrors' =
       IF ~IncludesCondition(actual, expected)
       THEN Append(assertionErrors,
                   FailureRecord(<<"[Assertion failed: ", "includes", "] ">> \o message
                                 \o <<"\n  Expected: ">> \o JSONStringify(expected) \o <<"\n  Actual: ">> \o JSONStringify(actual)))
       ELSE assertionErrors
  /\ UNCHANGED <<control, thrown>>

\* a faulty isTrue that accepts every truthy value; C12 tells it apart
isTrue_truthy(value, message) ==
  /\ control = "running"
  /\ assertionErrors' =
       IF ~ToBoolean(value)
       THEN Append(assertionErrors,
                   FailureRecord(<<"[Assertion failed: ", "isTrue", "] ">> \o message
                                 \o <<"\n  Expected: true\n  Actual: ">> \o ToString(value)))
       ELSE assertionErrors
  /\ UNCHANGED <<control, thrown>>

isTrue(value, message) ==
  /\ control = "running"
  /\ assertionErrors' =
       IF ~ToBoolean(value) \/ TypeOf(value) # "boolean"
       THEN Append(assertionErrors,
                   FailureRecord(<<"[Assertion failed: ", "isTrue", "] ">> \o message
                                 \o <<"\n  Expected: true\n  Actual: ">> \o ToString(value)))
       ELSE assertionErrors
  /\ UNCHANGED <<control, thrown>>

\* a faulty isFalse that records when the value is falsy; C8 tells it apart
isFalse_inverted(value, message) ==
  /\ control = "running"
  /\ assertionErrors' =
       IF ~ToBoolean(value)
       THEN Append(assertionErrors,
                   FailureRecord(<<"[Assertion failed: ", "isFalse", "] ">> \o message
                                 \o <<"\n  Expected: false\n  Actual: ">> \o ToString(value)))
       ELSE assertionErrors
  /\ UNCHANGED <<control, thrown>>

isFalse(value, message) ==
  /\ control = "running"
  /\ assertionErrors' =
       IF ToBoolean(value)
       THEN Append(assertionErrors,
                   FailureRecord(<<"[Assertion failed: ", "isFalse", "] ">> \o message
                                 \o <<"\n  Expected: false\n  Actual: ">> \o ToString(value)))
       ELSE assertionErrors
  /\ UNCHANGED <<control, thrown>>

\* a faulty notEqual that compares the two representations, so that two
\* mappings with the same pairs in another order are not equal; C13 tells
\* it apart
notEqual_shallow(actual, expected, message) ==
  /\ control = "running"
  /\ assertionErrors' =
       IF actual = expected
       THEN Append(assertionErrors,
                   FailureRecord(<<"[Assertion failed: ", "notEqual", "] ">> \o message
                                 \o <<"\n  Value should not be equal to: ">> \o ToString(expected) \o <<"\n  Actual: ">> \o ToString(actual)))
       ELSE assertionErrors
  /\ UNCHANGED <<control, thrown>>

notEqual(actual, expected, message) ==
  /\ control = "running"
  /\ assertionErrors' =
       IF lodash_isEqual(actual, expected)
       THEN Append(assertionErrors,
                   FailureRecord(<<"[Assertion failed: ", "notEqual", "] ">> \o message
                                 \o <<"\n  Value should not be equal to: ">> \o ToString(expected) \o <<"\n  Actual: ">> \o ToString(actual)))
       ELSE assertionErrors
  /\ UNCHANGED <<control, thrown>>

greaterThan(actual, expected, message) ==
  /\ control = "running"
  /\ assertionErrors' =
       IF LessOrEqual(actual, expected)
       THEN Append(assertionErrors,
                   FailureRecord(<<"[Assertion failed: ", "greaterThan", "] ">> \o message
                                 \o <<"\n  Expected a value greater than: ">> \o ToString(expected) \o <<"\n  Actual: ">> \o ToString(actual)))
       ELSE assertionErrors
  /\ UNCHANGED <<control, thrown>>

\* a faulty isLessThan that drains as a strict check does; C1 tells it apart
isLessThan_raising(actual, expected, message) ==
  /\ control = "running"
  /\ IF GreaterOrEqual(actual, expected)
     THEN assertAllOn(Append(assertionErrors,
                             FailureRecord(<<"[Assertion failed: ", "isLessThan", "] ">> \o message
                                           \o <<"\n  Expected a value less than: ">> \o ToString(expected) \o <<"\n  Actual: ">> \o ToString(actual))))
     ELSE UNCHANGED <<assertionErrors, control, thrown>>

isLessThan(actual, expected, message) ==
  /\ control = "running"
  /\ assertionErrors' =
       IF GreaterOrEqual(actual, expected)
       THEN Append(assertionErrors,
                   FailureRecord(<<"[Assertion failed: ", "isLessThan", "] ">> \o message
                                 \o <<"\n  Expected a value less than: ">> \o ToString(expected) \o <<"\n  Actual: ">> \o ToString(actual)))
       ELSE assertionErrors
  /\ UNCHANGED <<control, thrown>>

notNull(value, message) ==
  /\ control = "running"
  /\ assertionErrors' =
       IF value.k = "null"
       THEN Append(assertionErrors,
                   FailureRecord(<<"[Assertion failed: ", "notNull", "] ">> \o message
                                 \o <<"\n  Expected a non-null value\n  Actual: ">> \o ToString(value)))
       ELSE assertionErrors
  /\ UNCHANGED <<control, thrown>>

isNull(value, message) ==
  /\ control = "running"
  /\ assertionErrors' =
       IF value.k # "null"
       THEN Append(assertionErrors,
                   FailureRecord(<<"[Assertion failed: ", "isNull", "] ">> \o message
                                 \o <<"\n  Expected a null value\n  Actual: ">> \o ToString(value)))
       ELSE assertionErrors
  /\ UNCHANGED <<control, thrown>>

\* a faulty isDefined that tests `value == null`, so that null is recorded
\* too; C18 tells it apart
isDefined_loose(value, message) ==
  /\ control = "running"
  /\ assertionErrors' =
       IF value.k \in {"undefined", "null"}
       THEN Append(assertionErrors,
                   FailureRecord(<<"[Assertion failed: ", "isDefined", "] ">> \o message
                                 \o <<"\n  Expected a defined value\n  Actual: ">> \o ToString(value)))
       ELSE assertionErrors
  /\ UNCHANGED <<control, thrown>>

isDefined(value, message) ==
  /\ control = "running"
  /\ assertionErrors' =
       IF value.k = "undefined"
       THEN Append(assertionErrors,
                   FailureRecord(<<"[Assertion failed: ", "isDefined", "] ">> \o message
                                 \o <<"\n  Expected a defined value\n  Actual: ">> \o ToString(value)))
       ELSE assertionErrors
  /\ UNCHANGED <<control, thrown>>

isUndefined(value, message) ==
  /\ control = "running"
  /\ assertionErrors' =
       IF value.k # "undefined"
       THEN Append(assertionErrors,
                   FailureRecord(<<"[Assertion failed: ", "isUndefined", "] ">> \o message
                                 \o <<"\n  Expected an undefined value\n  Actual: ">> \o ToString(value)))
       ELSE assertionErrors
  /\ UNCHANGED <<control, thrown>>

isNumber(value, message) ==
  /\ control = "running"
  /\ assertionErrors' =
       IF lodash_isNaN(value)
       THEN Append(assertionErrors,
                   FailureRecord(<<"[Assertion failed: ", "isNumber", "] ">> \o message
                                 \o <<"\n  Expected a number\n  Actual: ">> \o ToString(value)))
       ELSE assertionErrors
  /\ UNCHANGED <<control, thrown>>

\* a faulty isString that tests the truth of the value, so that the empty
\* string is recorded; C19 tells it apart
isString_nonEmpty(value, message) ==
  /\ control = "running"
  /\ assertionErrors' =
       IF ~lodash_isString(value) \/ ~ToBoolean(value)
       THEN Append(assertionErrors,
                   FailureRecord(<<"[Assertion failed: ", "isString", "] ">> \o message
                                 \o <<"\n  Expected a string\n  Actual: ">> \o ToString(value) \o <<" (type: ", TypeOf(value), ")">>))
       ELSE assertionErrors
  /\ UNCHANGED <<control, thrown>>

isString(value, message) ==
  /\ control = "running"
  /\ assertionErrors' =
       IF ~lodash_isString(value)
       THEN Append(assertionErrors,
                   FailureRecord(<<"[Assertion failed: ", "isString", "] ">> \o message
                                 \o <<"\n  Expected a string\n  Actual: ">> \o ToString(value) \o <<" (type: ", TypeOf(value), ")">>))
       ELSE assertionErrors
  /\ UNCHANGED <<control, thrown>>

isEmpty(value, message) ==
  /\ control = "running"
  /\ assertionErrors' =
       IF ~lodash_isEmpty(value)
       THEN Append(assertionErrors,
                   FailureRecord(<<"[Assertion failed: ", "isEmpty", "] ">> \o message
                                 \o <<"\n  Expected an empty value\n  Actual: ">> \o ToString(value)))
       ELSE assertionErrors
  /\ UNCHANGED <<control, thrown>>

\* ------------------------------------------------------------------------
\* Assert: the strict checks
\* ------------------------------------------------------------------------

strictEquals(actual, expected, message) ==
  /\ control = "running"
  /\ IF ~lodash_isEqual(actual, expected)
     THEN assertAllOn(Append(assertionErrors,
                             FailureRecord(<<"[Assertion failed: ", "strictEquals", "] ">> \o message
                                           \o <<"\n  Expected: ">> \o ToString(expected) \o <<"\n  Actual: ">> \o ToString(actual))))
     ELSE UNCHANGED <<assertionErrors, control, thrown>>

strictIncludes(actual, expected, message) ==
  /\ control = "running"
  /\ IF ~IncludesCondition(actual, expected)
     THEN assertAllOn(Append(assertionErrors,
                             FailureRecord(<<"[Assertion failed: ", "strictIncludes", "] ">> \o message
                                           \o <<"\n  Expected: ">> \o JSONStringify(expected) \o <<"\n  Actual: ">> \o JSONStringify(actual))))
     ELSE UNCHANGED <<assertionErrors, control, thrown>>

\* a faulty strictIsTrue that accepts every truthy value; C24 tells it apart
strictIsTrue_truthy(value, message) ==
  /\ control = "running"
  /\ IF ~ToBoolean(value)
     THEN assertAllOn(Append(assertionErrors,
                             FailureRecord(<<"[Assertion failed: ", "strictIsTrue", "] ">> \o message
                                           \o <<"\n  Expected: true\n  Actual: ">> \o ToString(value))))
     ELSE UNCHANGED <<assertionErrors, control, thrown>>

\* a faulty strictIsTrue that calls assertAll whether or not the check
\* failed; C9 tells it apart
strictIsTrue_alwaysDrains(value, message) ==
  /\ control = "running"
  /\ IF ~ToBoolean(value) \/ TypeOf(value) # "boolean"
     THEN assertAllOn(Append(assertionErrors,
                             FailureRecord(<<"[Assertion failed: ", "strictIsTrue", "] ">> \o message
                                           \o <<"\n  Expected: true\n  Actual: ">> \o ToString(value))))
     ELSE assertAllOn(assertionErrors)

strictIsTrue(value, message) ==
  /\ control = "running"
  /\ IF ~ToBoolean(value) \/ TypeOf(value) # "boolean"
     THEN assertAllOn(Append(assertionErrors,
                             FailureRecord(<<"[Assertion failed: ", "strictIsTrue", "] ">> \o message
                                           \o <<"\n  Expected: true\n  Actual: ">> \o ToString(value))))
     ELSE UNCHANGED <<assertionErrors, control, thrown>>

strictIsFalse(value, message) ==
  /\ control = "running"
  /\ IF ToBoolean(value)
     THEN assertAllOn(Append(assertionErrors,
                             FailureRecord(<<"[Assertion failed: ", "strictIsFalse", "] ">> \o message
                                           \o <<"\n  Expected: false\n  Actual: ">> \o ToString(value))))
     ELSE UNCHANGED <<assertionErrors, control, thrown>>

strictNotEqual(actual, expected, message) ==
  /\ control = "running"
  /\ IF lodash_isEqual(actual, expected)
     THEN assertAllOn(Append(assertionErrors,
                             FailureRecord(<<"[Assertion failed: ", "strictNotEqual", "] ">> \o message
                                           \o <<"\n  Value should not be equal to: ">> \o ToString(expected) \o <<"\n  Actual: ">> \o ToString(actual))))
     ELSE UNCHANGED <<assertionErrors, control, thrown>>

strictGreaterThan(actual, expected, message) ==
  /\ control = "running"
  /\ IF LessOrEqual(actual, expected)
     THEN assertAllOn(Append(assertionErrors,
                             FailureRecord(<<"[Assertion failed: ", "strictGreaterThan", "] ">> \o message
                                           \o <<"\n  Expected a value greater than: ">> \o ToString(expected) \o <<"\n  Actual: ">> \o ToString(actual))))
     ELSE UNCHANGED <<assertionErrors, control, thrown>>

\* records the failure and returns: this method does not call assertAll
strictIsLessThan(actual, expected, message) ==
  /\ control = "running"
  /\ assertionErrors' =
       IF GreaterOrEqual(actual, expected)
       THEN Append(assertionErrors,
                   FailureRecord(<<"[Assertion failed: ", "strictIsLessThan", "] ">> \o message
                                 \o <<"\n  Expected a value less than: ">> \o ToString(expected) \o <<"\n  Actual: ">> \o ToString(actual)))
       ELSE assertionErrors
  /\ UNCHANGED <<control, thrown>>

strictNotNull(value, message) ==
  /\ control = "running"
  /\ IF value.k = "null"
     THEN assertAllOn(Append(assertionErrors,
                             FailureRecord(<<"[Assertion failed: ", "strictNotNull", "] ">> \o message
                                           \o <<"\n  Expected a non-null value\n  Actual: ">> \o ToString(value))))
     ELSE UNCHANGED <<assertionErrors, control, thrown>>

strictIsNull(value, message) ==
  /\ control = "running"
  /\ IF value.k # "null"
     THEN assertAllOn(Append(assertionErrors,
                             FailureRecord(<<"[Assertion failed: ", "strictIsNull", "] ">> \o message
                                           \o <<"\n  Expected a null value\n  Actual: ">> \o ToString(value))))
     ELSE UNCHANGED <<assertionErrors, control, thrown>>

strictIsDefined(value, message) ==
  /\ control = "running"
  /\ IF value.k = "undefined"
     THEN assertAllOn(Append(assertionErrors,
                             FailureRecord(<<"[Assertion failed: ", "strictIsDefined", "] ">> \o message
                                           \o <<"\n  Expected a defined value\n  Actual: ">> \o ToString(value))))
     ELSE UNCHANGED <<assertionErrors, control, thrown>>

strictIsUndefined(value, message) ==
  /\ control = "running"
  /\ IF value.k # "undefined"
     THEN assertAllOn(Append(assertionErrors,
                             FailureRecord(<<"[Assertion failed: ", "strictIsUndefined", "] ">> \o message
                                           \o <<"\n  Expected an undefined value\n  Actual: ">> \o ToString(value))))
     ELSE UNCHANGED <<assertionErrors, control, thrown>>

strictIsNumber(value, message) ==
  /\ control = "running"
  /\ IF lodash_isNaN(value)
     THEN assertAllOn(Append(assertionErrors,
                             FailureRecord(<<"[Assertion failed: ", "strictIsNumber", "] ">> \o message
                                           \o <<"\n  Expected a number\n  Actual: ">> \o ToString(value))))
     ELSE UNCHANGED <<assertionErrors, control, thrown>>

strictIsString(value, message) ==
  /\ control = "running"
  /\ IF ~lodash_isString(value)
     THEN assertAllOn(Append(assertionErrors,
                             FailureRecord(<<"[Assertion failed: ", "strictIsString", "] ">> \o message
                                           \o <<"\n  Expected a string\n  Actual: ">> \o ToString(value) \o <<" (type: ", TypeOf(value), ")">>)))
     ELSE UNCHANGED <<assertionErrors, control, thrown>>

strictIsEmpty(value, message) ==
  /\ control = "running"
  /\ IF ~lodash_isEmpty(value)
     THEN assertAllOn(Append(assertionErrors,
                             FailureRecord(<<"[Assertion failed: ", "strictIsEmpty", "] ">> \o message
                                           \o <<"\n  Expected an empty value\n  Actual: ">> \o ToString(value))))
     ELSE UNCHANGED <<assertionErrors, control, thrown>>

\* assertAll(): throws when failures are pending, after emptying the list
assertAll ==
  /\ control = "running"
  /\ assertAllOn(assertionErrors)

\* new Assert(): the caller goes on with a fresh instance
newAssert ==
  /\ control = "running"
  /\ assertionErrors' = <<>>
  /\ UNCHANGED <<control, thrown>>

\* the caller catches the propagating error, as expect(...).toThrow() does
catchError ==
  /\ control = "unwinding"
  /\ control' = "running"
  /\ thrown' = NoError
  /\ UNCHANGED assertionErrors

\* ------------------------------------------------------------------------
\* Callers
\* ------------------------------------------------------------------------
\* the check methods: each soft method with its strict counterpart
Methods ==
  <<<<"equals", "strictEquals">>,
     <<"includes", "strictIncludes">>,
     <<"isTrue", "strictIsTrue">>,
     <<"isFalse", "strictIsFalse">>,
     <<"notEqual", "strictNotEqual">>,
     <<"greaterThan", "strictGreaterThan">>,
     <<"isLessThan", "strictIsLessThan">>,
     <<"notNull", "strictNotNull">>,
     <<"isNull", "strictIsNull">>,
     <<"isDefined", "strictIsDefined">>,
     <<"isUndefined", "strictIsUndefined">>,
     <<"isNumber", "strictIsNumber">>,
     <<"isString", "strictIsString">>,
     <<"isEmpty", "strictIsEmpty">>>>

SoftOps == {Methods[i][1] : i \in 1..Len(Methods)}
StrictOps == {Methods[i][2] : i \in 1..Len(Methods)}
StrictOf(op) == Methods[CHOOSE i \in 1..Len(Methods) : Methods[i][1] = op][2]
\* the soft methods that take (actual, expected, message)
BinaryOps == {"equals", "includes", "notEqual", "greaterThan", "isLessThan"}

\* a call of a check method; a method of one value takes it as `actual`
Call(op, actual, expected, message) ==
  [op |-> op, actual |-> actual, expected |-> expected, message |-> message]


foo == Str(<<"f", "o", "o">>)
doo == Str(<<"d", "o", "o">>)
LazyFox == Str(<<"L", "a", "z", "y", " ", "f", "o", "x", "!">>)
OhNo == <<"Oh no">>

\* the scenario of three checks that the caller may follow on a fresh Assert
ScenarioCalls ==
  <<Call("isTrue", Bool(TRUE), Undefined, <<"a">>),
    Call("equals", Str(<<"x">>), Str(<<"y">>), <<"b">>),
    Call("isFalse", Bool(TRUE), Undefined, <<"c">>)>>

\* the calls shown in the documentation of the soft methods, one that passes
\* and one that records a failure for each method, and the scenario's calls
SoftExamples ==
  {Call("equals", foo, foo, OhNo), Call("equals", foo, doo, OhNo),
   Call("includes", LazyFox, Str(<<"y", " ", "f">>), OhNo),
   Call("includes", LazyFox, Str(<<"Y", " ", "f">>), OhNo),
   Call("isTrue", Bool(TRUE), Undefined, OhNo), Call("isTrue", Bool(FALSE), Undefined, OhNo),
   Call("isFalse", Bool(FALSE), Undefined, OhNo), Call("isFalse", Bool(TRUE), Undefined, OhNo),
   Call("notEqual", foo, doo, OhNo), Call("notEqual", foo, foo, OhNo),
   Call("greaterThan", Num(11), Num(10), OhNo), Call("greaterThan", Num(1), Num(10), OhNo),
   Call("isLessThan", Num(1), Num(10), OhNo), Call("isLessThan", Num(11), Num(0), OhNo),
   Call("notNull", Num(1), Undefined, OhNo), Call("notNull", Null, Undefined, OhNo),
   Call("isNull", Null, Undefined, OhNo),
   Call("isNull", Arr(<<Num(1), Num(3), foo>>), Undefined, OhNo),
   Call("isDefined", Null, Undefined, OhNo), Call("isDefined", Undefined, Undefined, OhNo),
   Call("isUndefined", Undefined, Undefined, OhNo), Call("isUndefined", Num(1), Undefined, OhNo),
   Call("isNumber", Num(42), Undefined, OhNo), Call("isNumber", NaN, Undefined, OhNo),
   Call("isString", foo, Undefined, OhNo), Call("isString", Num(123), Undefined, OhNo),
   Call("isEmpty", Str(<<>>), Undefined, OhNo), Call("isEmpty", foo, Undefined, OhNo)}
  \cup {ScenarioCalls[i] : i \in 1..Len(ScenarioCalls)}

\* the same calls made through the strict methods
Examples == SoftExamples \cup {[c EXCEPT !.op = StrictOf(c.op)] : c \in SoftExamples}

\* the value universe: undefined, null, the booleans, the numbers -1..MaxNum
\* and the non-finite ones, some strings, the arrays of at most MaxLen
\* elements, and the mappings over the keys "a" and "b" in both orders
ArrayElements == {Num(1), Num(2), Str(<<"a">>)}
MappingValues == {Num(1), Num(2)}
Values ==
  {Undefined, Null, Bool(TRUE), Bool(FALSE), NaN, Infinity, NegInfinity}
  \cup {Num(i) : i \in -1..MaxNum}
  \cup {Str(<<>>), Str(<<"a">>), Str(<<"b">>), Str(<<"a", "b">>), Str(<<"A">>), Str(<<"1">>),
        Str(<<"t", "r", "u", "e">>)}
  \cup {Arr(e) : e \in UNION {[1..len -> ArrayElements] : len \in 0..MaxLen}}
  \cup {Obj(<<>>, <<>>)}
  \cup {Obj(<<key>>, <<v>>) : key \in {<<"a">>, <<"b">>}, v \in MappingValues}
  \cup {Obj(keys, <<v, w>>) : keys \in {<< <<"a">>, <<"b">> >>, << <<"b">>, <<"a">> >>},
                              v \in MappingValues, w \in MappingValues}

\* the history variables after the call c: it recorded a failure when the
\* list grew or the error was thrown
Note(c) ==
  /\ last' = [call |-> c,
              failed |-> (Len(assertionErrors') > Len(assertionErrors)
                          \/ control' = "unwinding")]
  /\ recorded' = IF control' = "unwinding" THEN <<>>
                 ELSE IF Len(assertionErrors') > Len(assertionErrors)
                      THEN Append(recorded, c)
                      ELSE recorded
  /\ scenario' = IF /\ scenario >= 0
                    /\ scenario < Len(ScenarioCalls)
                    /\ c = ScenarioCalls[scenario + 1]
                 THEN scenario + 1
                 ELSE -1
  /\ UNCHANGED otherObjects

\* the history variables after a call that is not a check
NoteOp(op) ==
  /\ last' = [call |-> Call(op, Undefined, Undefined, <<>>), failed |-> FALSE]
  /\ recorded' = IF op = "catchError" THEN recorded ELSE <<>>
  /\ scenario' = IF op = "newAssert" THEN 0
                 ELSE IF op = "assertAll" /\ scenario = Len(ScenarioCalls)
                      THEN scenario + 1
                      ELSE -1
  /\ UNCHANGED otherObjects

\* the call sites that use the AssertionLibrary
Sites == {1, 2}

Init ==
  /\ assertionErrors = <<>>
  /\ control = "running"
  /\ thrown = NoError
  /\ last = [call |-> Call("newAssert", Undefined, Undefined, <<>>), failed |-> FALSE]
  /\ recorded = <<>>
  /\ scenario = 0
  /\ others = <<>>
  /\ this = 1
  /\ variant = "Assert"
  /\ instance = 0
  /\ heap = <<>>
  /\ refs = [site \in Sites |-> 0]
  /\ tasks = <<>>

\* a session makes a check while fewer than MaxPending failures are pending
CanCheck == Len(assertionErrors) < MaxPending

\* a session: any of the documented calls, in any order, on one Assert
Next ==
  \/ \E c \in Examples : CanCheck /\ c.op = "equals" /\ equals(c.actual, c.expected, c.message) /\ Note(c)
  \/ \E c \in Examples : CanCheck /\ c.op = "includes" /\ includes(c.actual, c.expected, c.message) /\ Note(c)
  \/ \E c \in Examples : CanCheck /\ c.op = "isTrue" /\ isTrue(c.actual, c.message) /\ Note(c)
  \/ \E c \in Examples : CanCheck /\ c.op = "isFalse" /\ isFalse(c.actual, c.message) /\ Note(c)
  \/ \E c \in Examples : CanCheck /\ c.op = "notEqual" /\ notEqual(c.actual, c.expected, c.message) /\ Note(c)
  \/ \E c \in Examples : CanCheck /\ c.op = "greaterThan" /\ greaterThan(c.actual, c.expected, c.message) /\ Note(c)
  \/ \E c \in Examples : CanCheck /\ c.op = "isLessThan" /\ isLessThan(c.actual, c.expected, c.message) /\ Note(c)
  \/ \E c \in Examples : CanCheck /\ c.op = "notNull" /\ notNull(c.actual, c.message) /\ Note(c)
  \/ \E c \in Examples : CanCheck /\ c.op = "isNull" /\ isNull(c.actual, c.message) /\ Note(c)
  \/ \E c \in Examples : CanCheck /\ c.op = "isDefined" /\ isDefined(c.actual, c.message) /\ Note(c)
  \/ \E c \in Examples : CanCheck /\ c.op = "isUndefined" /\ isUndefined(c.actual, c.message) /\ Note(c)
  \/ \E c \in Examples : CanCheck /\ c.op = "isNumber" /\ isNumber(c.actual, c.message) /\ Note(c)
  \/ \E c \in Examples : CanCheck /\ c.op = "isString" /\ isString(c.actual, c.message) /\ Note(c)
  \/ \E c \in Examples : CanCheck /\ c.op = "isEmpty" /\ isEmpty(c.actual, c.message) /\ Note(c)
  \/ \E c \in Examples : CanCheck /\ c.op = "strictEquals" /\ strictEquals(c.actual, c.expected, c.message) /\ Note(c)
  \/ \E c \in Examples : CanCheck /\ c.op = "strictIncludes" /\ strictIncludes(c.actual, c.expected, c.message) /\ Note(c)
  \/ \E c \in Examples : CanCheck /\ c.op = "strictIsTrue" /\ strictIsTrue(c.actual, c.message) /\ Note(c)
  \/ \E c \in Examples : CanCheck /\ c.op = "strictIsFalse" /\ strictIsFalse(c.actual, c.message) /\ Note(c)
  \/ \E c \in Examples : CanCheck /\ c.op = "strictNotEqual" /\ strictNotEqual(c.actual, c.expected, c.message) /\ Note(c)
  \/ \E c \in Examples : CanCheck /\ c.op = "strictGreaterThan" /\ strictGreaterThan(c.actual, c.expected, c.message) /\ Note(c)
  \/ \E c \in Examples : CanCheck /\ c.op = "strictIsLessThan" /\ strictIsLessThan(c.actual, c.expected, c.message) /\ Note(c)
  \/ \E c \in Examples : CanCheck /\ c.op = "strictNotNull" /\ strictNotNull(c.actual, c.message) /\ Note(c)
  \/ \E c \in Examples : CanCheck /\ c.op = "strictIsNull" /\ strictIsNull(c.actual, c.message) /\ Note(c)
  \/ \E c \in Examples : CanCheck /\ c.op = "strictIsDefined" /\ strictIsDefined(c.actual, c.message) /\ Note(c)
  \/ \E c \in Examples : CanCheck /\ c.op = "strictIsUndefined" /\ strictIsUndefined(c.actual, c.message) /\ Note(c)
  \/ \E c \in Examples : CanCheck /\ c.op = "strictIsNumber" /\ strictIsNumber(c.actual, c.message) /\ Note(c)
  \/ \E c \in Examples : CanCheck /\ c.op = "strictIsString" /\ strictIsString(c.actual, c.message) /\ Note(c)
  \/ \E c \in Examples : CanCheck /\ c.op = "strictIsEmpty" /\ strictIsEmpty(c.actual, c.message) /\ Note(c)
  \/ assertAll /\ NoteOp("assertAll")
  \/ catchError /\ NoteOp("catchError")
  \/ newAssert /\ NoteOp("newAssert")

Spec == Init /\ [][Next]_vars

\* a test makes its single check on the Assert it has just constructed
Fresh == last.call.op = "newAssert"
\* the description that the tests pass
Description == <<"m">>

\* the shape of the test suite: a fresh Assert, one check on any values of
\* the universe, then assertAll, whose error the test catches; a test may
\* also call notEqual after equals, or the strict counterpart after a soft
\* check, on the values it has just checked
NextInputs ==
  \/ Fresh /\ \E actual \in Values, expected \in Values :
       equals(actual, expected, Description) /\ Note(Call("equals", actual, expected, Description))
  \/ /\ last.call.op = "equals"
     /\ notEqual(last.call.actual, last.call.expected, Description)
     /\ Note(Call("notEqual", last.call.actual, last.call.expected, Description))
  \/ Fresh /\ \E actual \in Values, expected \in Values :
       includes(actual, expected, Description) /\ Note(Call("includes", actual, expected, Description))
  \/ Fresh /\ \E value \in Values :
       isTrue(value, Description) /\ Note(Call("isTrue", value, Undefined, Description))
  \/ Fresh /\ \E value \in Values :
       isFalse(value, Description) /\ Note(Call("isFalse", value, Undefined, Description))
  \/ Fresh /\ \E actual \in Values, expected \in Values :
       notEqual(actual, expected, Description) /\ Note(Call("notEqual", actual, expected, Description))
  \/ Fresh /\ \E actual \in Values, expected \in Values :
       greaterThan(actual, expected, Description) /\ Note(Call("greaterThan", actual, expected, Description))
  \/ Fresh /\ \E actual \in Values, expected \in Values :
       isLessThan(actual, expected, Description) /\ Note(Call("isLessThan", actual, expected, Description))
  \/ Fresh /\ \E value \in Values :
       notNull(value, Description) /\ Note(Call("notNull", value, Undefined, Description))
  \/ Fresh /\ \E value \in Values :
       isNull(value, Description) /\ Note(Call("isNull", value, Undefined, Description))
  \/ Fresh /\ \E value \in Values :
       isDefined(value, Description) /\ Note(Call("isDefined", value, Undefined, Description))
  \/ Fresh /\ \E value \in Values :
       isUndefined(value, Description) /\ Note(Call("isUndefined", value, Undefined, Description))
  \/ Fresh /\ \E value \in Values :
       isNumber(value, Description) /\ Note(Call("isNumber", value, Undefined, Description))
  \/ Fresh /\ \E value \in Values :
       isString(value, Description) /\ Note(Call("isString", value, Undefined, Description))
  \/ Fresh /\ \E value \in Values :
       isEmpty(value, Description) /\ Note(Call("isEmpty", value, Undefined, Description))
  \/ Fresh /\ \E actual \in Values, expected \in Values :
       strictEquals(actual, expected, Description) /\ Note(Call("strictEquals", actual, expected, Description))
  \/ Fresh /\ \E actual \in Values, expected \in Values :
       strictIncludes(actual, expected, Description) /\ Note(Call("strictIncludes", actual, expected, Description))
  \/ Fresh /\ \E value \in Values :
       strictIsTrue(value, Description) /\ Note(Call("strictIsTrue", value, Undefined, Description))
  \/ Fresh /\ \E value \in Values :
       strictIsFalse(value, Description) /\ Note(Call("strictIsFalse", value, Undefined, Description))
  \/ Fresh /\ \E actual \in Values, expected \in Values :
       strictNotEqual(actual, expected, Description) /\ Note(Call("strictNotEqual", actual, expected, Description))
  \/ Fresh /\ \E actual \in Values, expected \in Values :
       strictGreaterThan(actual, expected, Description) /\ Note(Call("strictGreaterThan", actual, expected, Description))
  \/ Fresh /\ \E actual \in Values, expected \in Values :
       strictIsLessThan(actual, expected, Description) /\ Note(Call("strictIsLessThan", actual, expected, Description))
  \/ Fresh /\ \E value \in Values :
       strictNotNull(value, Description) /\ Note(Call("strictNotNull", value, Undefined, Description))
  \/ Fresh /\ \E value \in Values :
       strictIsNull(value, Description) /\ Note(Call("strictIsNull", value, Undefined, Description))
  \/ Fresh /\ \E value \in Values :
       strictIsDefined(value, Description) /\ Note(Call("strictIsDefined", value, Undefined, Description))
  \/ Fresh /\ \E value \in Values :
       strictIsUndefined(value, Description) /\ Note(Call("strictIsUndefined", value, Undefined, Description))
  \/ Fresh /\ \E value \in Values :
       strictIsNumber(value, Description) /\ Note(Call("strictIsNumber", value, Undefined, Description))
  \/ Fresh /\ \E value \in Values :
       strictIsString(value, Description) /\ Note(Call("strictIsString", value, Undefined, Description))
  \/ Fresh /\ \E value \in Values :
       strictIsEmpty(value, Description) /\ Note(Call("strictIsEmpty", value, Undefined, Description))
  \/ /\ last.call.op = "equals"
     /\ strictEquals(last.call.actual, last.call.expected, Description)
     /\ Note(Call("strictEquals", last.call.actual, last.call.expected, Description))
  \/ /\ last.call.op = "includes"
     /\ strictIncludes(last.call.actual, last.call.expected, Description)
     /\ Note(Call("strictIncludes", last.call.actual, last.call.expected, Description))
  \/ /\ last.call.op = "isTrue"
     /\ strictIsTrue(last.call.actual, Description)
     /\ Note(Call("strictIsTrue", last.call.actual, last.call.expected, Description))
  \/ /\ last.call.op = "isFalse"
     /\ strictIsFalse(last.call.actual, Description)
     /\ Note(Call("strictIsFalse", last.call.actual, last.call.expected, Description))
  \/ /\ last.call.op = "notEqual"
     /\ strictNotEqual(last.call.actual, last.call.expected, Description)
     /\ Note(Call("strictNotEqual", last.call.actual, last.call.expected, Description))
  \/ /\ last.call.op = "greaterThan"
     /\ strictGreaterThan(last.call.actual, last.call.expected, Description)
     /\ Note(Call("strictGreaterThan", last.call.actual, last.call.expected, Description))
  \/ /\ last.call.op = "isLessThan"
     /\ strictIsLessThan(last.call.actual, last.call.expected, Description)
     /\ Note(Call("strictIsLessThan", last.call.actual, last.call.expected, Description))
  \/ /\ last.call.op = "notNull"
     /\ strictNotNull(last.call.actual, Description)
     /\ Note(Call("strictNotNull", last.call.actual, last.call.expected, Description))
  \/ /\ last.call.op = "isNull"
     /\ strictIsNull(last.call.actual, Description)
     /\ Note(Call("strictIsNull", last.call.actual, last.call.expected, Description))
  \/ /\ last.call.op = "isDefined"
     /\ strictIsDefined(last.call.actual, Description)
     /\ Note(Call("strictIsDefined", last.call.actual, last.call.expected, Description))
  \/ /\ last.call.op = "isUndefined"
     /\ strictIsUndefined(last.call.actual, Description)
     /\ Note(Call("strictIsUndefined", last.call.actual, last.call.expected, Description))
  \/ /\ last.call.op = "isNumber"
     /\ strictIsNumber(last.call.actual, Description)
     /\ Note(Call("strictIsNumber", last.call.actual, last.call.expected, Description))
  \/ /\ last.call.op = "isString"
     /\ strictIsString(last.call.actual, Description)
     /\ Note(Call("strictIsString", last.call.actual, last.call.expected, Description))
  \/ /\ last.call.op = "isEmpty"
     /\ strictIsEmpty(last.call.actual, Description)
     /\ Note(Call("strictIsEmpty", last.call.actual, last.call.expected, Description))
  \/ last.call.op \notin {"newAssert", "assertAll"} /\ assertAll /\ NoteOp("assertAll")
  \/ catchError /\ NoteOp("catchError")
  \/ last.call.op \in {"assertAll", "catchError"} /\ newAssert /\ NoteOp("newAssert")

SpecInputs == Init /\ [][NextInputs]_vars

\* ------------------------------------------------------------------------
\* What the claims speak of
\* ------------------------------------------------------------------------
\* the soft method whose predicate the method op checks
BaseOp(op) ==
  IF op \in SoftOps THEN op
  ELSE Methods[CHOOSE i \in 1..Len(Methods) : Methods[i][2] = op][1]

\* the key-value pairs of a mapping, whatever their order
Pairs(v) == {<<v.ks[i], v.a[i]>> : i \in 1..Len(v.ks)}

\* deep structural equality of two values of the universe
DeepEqual(x, y) ==
  /\ x.k = y.k
  /\ IF x.k = "object" THEN Pairs(x) = Pairs(y) ELSE x = y

\* x > y for two numbers
NumberGreater(x, y) ==
  /\ x.k = "number" /\ y.k = "number"
  /\ x.sp # "NaN" /\ y.sp # "NaN"
  /\ x # y
  /\ \/ x.sp = "Infinity"
     \/ y.sp = "-Infinity"
     \/ x.sp = "" /\ y.sp = "" /\ x.n > y.n

\* the predicate that the call c checks, as the method's contract states it
PredicateHolds(c) ==
  LET op == BaseOp(c.op)
      actual == c.actual
      expected == c.expected
  IN CASE op = "equals" -> DeepEqual(actual, expected)
       [] op = "notEqual" -> ~DeepEqual(actual, expected)
       [] op = "includes" ->
            CASE actual.k = "string" -> expected.k = "string" /\ IsSubstring(expected.s, actual.s)
              [] actual.k = "array" -> \E i \in 1..Len(actual.a) : actual.a[i] = expected
              [] actual.k = "object" ->
                   expected.k = "string" /\ \E i \in 1..Len(actual.ks) : actual.ks[i] = expected.s
              [] OTHER -> FALSE
       [] op = "isTrue" -> actual = Bool(TRUE)
       [] op = "isFalse" -> actual = Bool(FALSE)
       [] op = "greaterThan" -> NumberGreater(actual, expected)
       [] op = "isLessThan" -> NumberGreater(expected, actual)
       [] op = "notNull" -> actual # Null
       [] op = "isNull" -> actual = Null
       [] op = "isDefined" -> actual # Undefined
       [] op = "isUndefined" -> actual = Undefined
       [] op = "isNumber" -> actual.k = "number" /\ actual.sp # "NaN"
       [] op = "isString" -> actual.k = "string"
       [] op = "isEmpty" ->
            \/ actual.k \in {"null", "undefined", "number", "boolean"}
            \/ actual.k = "string" /\ Len(actual.s) = 0
            \/ actual.k = "array" /\ Len(actual.a) = 0
            \/ actual.k = "object" /\ Len(actual.ks) = 0

\* the entries of a report, read back from its text: each starts at a cross
\* mark, its number runs up to the chunk "]: \n", and its message up to the
\* newline that closes the entry
ReportEntries(text) ==
  LET marks == SelectSeq([i \in 1..Len(text) |-> i], LAMBDA i : text[i] = CrossMark)
      count == Len(marks)
  IN [j \in 1..count |->
        LET from == marks[j]
            upto == IF j < count THEN marks[j + 1] - 2 ELSE Len(text)
            colon == CHOOSE i \in from..upto :
                       text[i] = "]: \n" /\ \A h \in from..(i - 1) : text[h] # "]: \n"
        IN [index |-> SubSeq(text, from + 2, colon - 1),
            message |-> SubSeq(text, colon + 1, upto - 1)]]

\* the entry (or record) e is the failure recorded by the call c: it names
\* the method and carries the caller's description
EntryOf(e, c) ==
  /\ Len(e.message) >= 4 + Len(c.message)
  /\ e.message[3] = c.op
  /\ SubSeq(e.message, 5, 4 + Len(c.message)) = c.message

\* the calls of the soft methods among calls
SoftCalls(calls) == SelectSeq(calls, LAMBDA c : c.op \in SoftOps)

\* ------------------------------------------------------------------------
\* Claims
\* ------------------------------------------------------------------------

C2_AssertAllRaisesIffPending ==
  [][last'.call.op = "assertAll" =>
       /\ (control' = "unwinding" /\ thrown' # NoError) <=> (assertionErrors # <<>>)
       /\ control' = "running" <=> thrown' = NoError
       /\ assertionErrors = <<>> => UNCHANGED <<assertionErrors, control, thrown>>]_vars

\* C2 witness: assertAll has raised the error for pending failures
C2_Witness ==
  /\ last.call.op = "assertAll"
  /\ control = "unwinding"
  /\ Len(ReportEntries(thrown)) >= 1

\* C3: after every assertAll call, and whenever an aggregate error is
\* propagating (raised by assertAll or by a failing strict check), the
\* pending list is empty; so an assertAll that follows an assertAll, or the
\* catch of an error, with no check in between never raises.
C3_DrainLeavesListEmpty ==
  /\ []((last.call.op = "assertAll" \/ control = "unwinding") => assertionErrors = <<>>)
  /\ [][(last.call.op \in {"assertAll", "catchError"} /\ last'.call.op = "assertAll") =>
          control' = "running" /\ thrown' = NoError]_vars

\* C3 witness: an error was raised for at least two failures and the list
\* is empty
C3_Witness ==
  /\ control = "unwinding"
  /\ Len(ReportEntries(thrown)) >= 2
  /\ assertionErrors = <<>>

\* C4: every strict check raises the aggregate error inside the call
\* whenever its predicate fails.
C4_FailingStrictCheckRaises ==
  (last.call.op \in StrictOps /\ ~PredicateHolds(last.call)) => control = "unwinding"

\* C5: the error that a failing strict check raises has exactly k+1 entries,
\* where k soft failures were recorded since the last drain: those k, in the
\* order they were recorded, then the strict failure itself.
C5_StrictReportHasSoftFailuresPlusOne ==
  [][(last'.call.op \in StrictOps /\ control' = "unwinding") =>
       LET entries == ReportEntries(thrown')
           soft == SoftCalls(recorded)
           k == Len(soft)
       IN /\ Len(entries) = k + 1
          /\ \A i \in 1..k : EntryOf(entries[i], soft[i])
          /\ EntryOf(entries[k + 1], last'.call)]_vars

ScenarioDone == scenario = Len(ScenarioCalls) + 1

\* the entry e renders the expected and the actual value of equals('x', 'y')
RefersToXY(e) ==
  IsSubstring(<<"\n  Expected: ", "y", "\n  Actual: ", "x">>, e.message)

\* the entry e renders expected false and actual true
RefersToFalseTrue(e) ==
  IsSubstring(<<"\n  Expected: false\n  Actual: ", "t", "r", "u", "e">>, e.message)

\* C8 as stated: after isTrue(true, 'a'), equals('x', 'y', 'b') and
\* isFalse(true, 'c') on a fresh Assert, assertAll raises one error with
\* three entries numbered 1, 2, 3, entry 2 referring to 'x' and 'y', entry 3
\* to expected false / actual true, and no entry for the isTrue call.
C8_ScenarioHasThreeEntries ==
  ScenarioDone =>
    LET entries == ReportEntries(thrown)
    IN /\ control = "unwinding"
       /\ Len(entries) = 3
       /\ \A n \in 1..3 : entries[n].index = NatToString(n)
       /\ RefersToXY(entries[2])
       /\ RefersToFalseTrue(entries[3])
       /\ \A n \in 1..3 : entries[n].message[3] # "isTrue"

\* C8 amended: the error has two entries numbered 1 and 2, entry 1 for
\* equals referring to 'x' and 'y' with description 'b', entry 2 for isFalse
\* referring to expected false / actual true with description 'c', and no
\* entry for the isTrue call, which passed.
C8_ScenarioHasTwoEntries ==
  ScenarioDone =>
    LET entries == ReportEntries(thrown)
    IN /\ control = "unwinding"
       /\ Len(entries) = 2
       /\ \A n \in 1..2 : entries[n].index = NatToString(n)
       /\ EntryOf(entries[1], ScenarioCalls[2]) /\ RefersToXY(entries[1])
       /\ EntryOf(entries[2], ScenarioCalls[3]) /\ RefersToFalseTrue(entries[2])
       /\ \A n \in 1..2 : entries[n].message[3] # "isTrue"

\* C8 witness: the scenario was run and its assertAll has raised
C8_Witness == ScenarioDone /\ control = "unwinding"

\* C9: a strict check whose predicate passes does not raise and leaves the
\* pending list unchanged, also when failures are pending.
C9_PassingStrictCheckChangesNothing ==
  [][(last'.call.op \in StrictOps /\ PredicateHolds(last'.call)) =>
       UNCHANGED <<assertionErrors, control, thrown>>]_vars

\* C9 witness: a strict check has passed while failures are pending
C9_Witness ==
  /\ last.call.op \in StrictOps
  /\ PredicateHolds(last.call)
  /\ Len(assertionErrors) >= 1
  /\ control = "running"

\* C10: isFalse records nothing exactly when the value is the boolean false
\* (the check is made on a fresh Assert, so the list shows what it recorded).
C10_IsFalseOnlyPassesFalse ==
  last.call.op = "isFalse" =>
    ((assertionErrors = <<>>) <=> (last.call.actual = Bool(FALSE)))

\* C11: isNumber records nothing exactly when the value's runtime type is
\* number and the value is not NaN; NaN and every value that is not a number
\* are recorded (the check is made on a fresh Assert).
C11_IsNumberOnlyPassesNumbers ==
  last.call.op = "isNumber" =>
    ((assertionErrors = <<>>)
       <=> (last.call.actual.k = "number" /\ last.call.actual.sp # "NaN"))

\* C12: isTrue records nothing exactly when the value is the boolean true;
\* every other value, truthy or not, is recorded (the check is made on a
\* fresh Assert).
C12_IsTrueOnlyPassesTrue ==
  last.call.op = "isTrue" =>
    ((assertionErrors = <<>>) <=> (last.call.actual = Bool(TRUE)))

\* C12 witness: isTrue has recorded a failure for the truthy string 'true'
C12_Witness ==
  /\ last.call.op = "isTrue"
  /\ last.call.actual = Str(<<"t", "r", "u", "e">>)
  /\ Len(assertionErrors) = 1

C14_EqualsIsDeepEquality ==
  last.call.op = "equals" =>
    /\ last.failed <=> ~DeepEqual(last.call.actual, last.call.expected)
    /\ last.failed <=> Len(assertionErrors) = 1
    /\ (last.call.actual = NaN /\ last.call.expected = NaN) => ~last.failed
    /\ (last.call.actual = Null \/ last.call.expected = Null) =>
         (last.failed <=> last.call.actual # last.call.expected)

\* C14 witness: equals has passed two mappings that list the same two
\* key-value pairs in different orders
C14_Witness ==
  /\ last.call.op = "equals"
  /\ ~last.failed
  /\ last.call.actual.k = "object"
  /\ Len(last.call.actual.ks) = 2
  /\ last.call.actual.ks # last.call.expected.ks

\* C15: includes passes exactly when: the actual value is a string and the
\* expected value is a substring of it; or it is an array and the expected
\* value is one of its elements; or it is a plain mapping and the expected
\* value is one of its keys.  In every other case it records a failure.
C15_IncludesContract ==
  last.call.op = "includes" =>
    (~last.failed <=> PredicateHolds(last.call))

\* C16: on number inputs, greaterThan records nothing exactly when
\* actual > expected; equal values, a smaller actual value and a NaN argument
\* are recorded.
C16_GreaterThanContract ==
  (/\ last.call.op = "greaterThan"
   /\ last.call.actual.k = "number"
   /\ last.call.expected.k = "number") =>
    (~last.failed <=> NumberGreater(last.call.actual, last.call.expected))

\* C17: on number inputs, isLessThan records nothing exactly when
\* actual < expected; equal values (0 and 0, Infinity and Infinity) and every
\* pair for which actual < expected is false are recorded.
C17_IsLessThanContract ==
  (/\ last.call.op = "isLessThan"
   /\ last.call.actual.k = "number"
   /\ last.call.expected.k = "number") =>
    (~last.failed <=> NumberGreater(last.call.expected, last.call.actual))

C19_IsStringOnlyPassesStrings ==
  last.call.op = "isString" =>
    /\ ~last.failed <=> last.call.actual.k = "string"
    /\ last.failed <=> Len(assertionErrors) = 1

\* C19 witness: isString was called with the empty string and has recorded
\* nothing
C19_Witness ==
  /\ last.call.op = "isString"
  /\ last.call.actual = Str(<<>>)
  /\ assertionErrors = <<>>
  /\ control = "running"

\* the chunks of a message that end with the label "Actual: "; the text
\* after one of them renders the actual value
ActualLabels ==
  {"\n  Actual: ",
   "\n  Expected: true\n  Actual: ",
   "\n  Expected: false\n  Actual: ",
   "\n  Expected a non-null value\n  Actual: ",
   "\n  Expected a null value\n  Actual: ",
   "\n  Expected a defined value\n  Actual: ",
   "\n  Expected an undefined value\n  Actual: ",
   "\n  Expected a number\n  Actual: ",
   "\n  Expected a string\n  Actual: ",
   "\n  Expected an empty value\n  Actual: "}

\* the chunks that end with a label of the expected value; the text after
\* one of them renders the expected value
ExpectedValueLabels ==
  {"\n  Expected: ",
   "\n  Value should not be equal to: ",
   "\n  Expected a value greater than: ",
   "\n  Expected a value less than: "}

\* the chunks that state the expected condition of a check of one value
ExpectedConditionLabels == ActualLabels \ {"\n  Actual: "}

\* the text that renders the value v in a message of the method op: the
\* string form of v, or its JSON form in a message of includes
Rendering(op, v) ==
  IF BaseOp(op) = "includes" THEN JSONStringify(v) ELSE ToString(v)

\* the text follows the chunk at position i of the message
FollowedBy(message, i, text) ==
  /\ i + Len(text) <= Len(message)
  /\ SubSeq(message, i + 1, i + Len(text)) = text

\* the message of a failure record states what the claim requires of the
\* failing call c
RecordDescribes(message, c) ==
  LET from == 5 + Len(c.message)
  IN /\ Len(message) >= from
     /\ message[2] = "[Assertion failed: " /\ message[3] = c.op /\ message[4] = "] "
     /\ SubSeq(message, 5, from - 1) = c.message
     /\ \E i \in from..Len(message) :
          message[i] \in ActualLabels /\ FollowedBy(message, i, Rendering(c.op, c.actual))
     /\ IF BaseOp(c.op) \in BinaryOps
        THEN \E j \in from..Len(message) :
               /\ message[j] \in ExpectedValueLabels
               /\ FollowedBy(message, j, Rendering(c.op, c.expected))
        ELSE \E j \in from..Len(message) : message[j] \in ExpectedConditionLabels

C22_ReportedExactlyOnce ==
  [][last'.call.op # "newAssert" =>
       IF control = "running" /\ control' = "unwinding"
       THEN LET entries == ReportEntries(thrown')
            IN /\ assertionErrors' = <<>>
               /\ Len(entries) =
                    Len(assertionErrors) + (IF last'.call.op \in StrictOps THEN 1 ELSE 0)
               /\ \A i \in 1..Len(assertionErrors) :
                    entries[i].message = assertionErrors[i].message
       ELSE \/ assertionErrors' = assertionErrors
            \/ /\ last'.call.op \in SoftOps \cup StrictOps
               /\ Len(assertionErrors') = Len(assertionErrors) + 1
               /\ SubSeq(assertionErrors', 1, Len(assertionErrors)) = assertionErrors]_vars

\* C22 witness: a failing strict check has raised an error whose first entry
\* is an earlier soft failure
C22_Witness ==
  /\ control = "unwinding"
  /\ last.call.op \in StrictOps
  /\ Len(ReportEntries(thrown)) = 2
  /\ ReportEntries(thrown)[1].message[3] \in SoftOps
  /\ assertionErrors = <<>>

\* C23: a soft check whose predicate passes leaves the pending list
\* unchanged; one whose predicate fails appends exactly one record at the end
\* and leaves the records before it, and their positions, unchanged.
C23_SoftCheckFrame ==
  [][last'.call.op \in SoftOps =>
       IF PredicateHolds(last'.call)
       THEN assertionErrors' = assertionErrors
       ELSE /\ Len(assertionErrors') = Len(assertionErrors) + 1
            /\ SubSeq(assertionErrors', 1, Len(assertionErrors)) = assertionErrors]_vars

\* C24: a strict method records a failure on exactly the inputs on which
\* its soft counterpart records one: called on the values the soft method
\* was just called on, it fails iff the soft call did.
C24_StrictAgreesWithSoft ==
  [][(/\ last.call.op \in SoftOps
      /\ last'.call.op = StrictOf(last.call.op)
      /\ last'.call.actual = last.call.actual
      /\ last'.call.expected = last.call.expected) =>
       (last'.failed <=> last.failed)]_vars

\* C24 witness: strictIsLessThan has recorded a failure for values for
\* which isLessThan had just recorded one
C24_Witness ==
  /\ last.call.op = "strictIsLessThan"
  /\ last.failed
  /\ Len(assertionErrors) = 2
  /\ assertionErrors[1].message[3] = "isLessThan"

\* ------------------------------------------------------------------------
\* Two instances of Assert
\* ------------------------------------------------------------------------
\* the description that the caller passes to the calls on instance i
InstanceName(i) == IF i = 1 THEN <<"first">> ELSE <<"second">>

\* the checks that the caller makes on instance i
InstanceCalls(i) ==
  {Call("equals", foo, foo, InstanceName(i)),
   Call("equals", foo, doo, InstanceName(i)),
   Call("isTrue", Bool(TRUE), Undefined, InstanceName(i)),
   Call("isTrue", Bool(FALSE), Undefined, InstanceName(i)),
   Call("strictEquals", foo, foo, InstanceName(i)),
   Call("strictEquals", foo, doo, InstanceName(i))}

\* a faulty class whose list is shared by its instances (a static field);
\* C21 tells it apart
useOther_shared ==
  /\ control = "running"
  /\ assertionErrors' = assertionErrors
  /\ others' = assertionErrors
  /\ this' = 3 - this
  /\ last' = [call |-> Call("useOther", Undefined, Undefined, <<>>), failed |-> FALSE]
  /\ recorded' = <<>>
  /\ scenario' = -1
  /\ UNCHANGED <<control, thrown, variant, instance, heap, refs, tasks>>

\* the caller turns to the other instance: assertionErrors is a field of the
\* instance, so each instance has a list of its own
useOther ==
  /\ control = "running"
  /\ assertionErrors' = others
  /\ others' = assertionErrors
  /\ this' = 3 - this
  /\ last' = [call |-> Call("useOther", Undefined, Undefined, <<>>), failed |-> FALSE]
  /\ recorded' = <<>>
  /\ scenario' = -1
  /\ UNCHANGED <<control, thrown, variant, instance, heap, refs, tasks>>

\* two Asserts, called in any order
NextInstances ==
  \/ \E c \in InstanceCalls(this) :
       CanCheck /\ c.op = "equals" /\ equals(c.actual, c.expected, c.message) /\ Note(c)
  \/ \E c \in InstanceCalls(this) :
       CanCheck /\ c.op = "isTrue" /\ isTrue(c.actual, c.message) /\ Note(c)
  \/ \E c \in InstanceCalls(this) :
       CanCheck /\ c.op = "strictEquals" /\ strictEquals(c.actual, c.expected, c.message) /\ Note(c)
  \/ assertAll /\ NoteOp("assertAll")
  \/ catchError /\ NoteOp("catchError")
  \/ newAssert /\ NoteOp("newAssert")
  \/ useOther

SpecInstances == Init /\ [][NextInstances]_vars

\* the records of the list were recorded by calls on instance i
RecordedOn(list, i) ==
  \A n \in 1..Len(list) :
    SubSeq(list[n].message, 5, 4 + Len(InstanceName(i))) = InstanceName(i)

\* C21: a newly constructed Assert has an empty pending list, so assertAll
\* on it returns normally; and the lists of two instances are independent:
\* each list holds only failures recorded on its instance, a call on one
\* instance leaves the list of the other unchanged, an error raised by an
\* instance lists only failures recorded on it, and assertAll raises iff the
\* list of its own instance is not empty.
C21_InstancesAreIndependent ==
  /\ [](RecordedOn(assertionErrors, this) /\ RecordedOn(others, 3 - this))
  /\ [][last'.call.op = "newAssert" => assertionErrors' = <<>>]_vars
  /\ [][(last.call.op = "newAssert" /\ last'.call.op = "assertAll") =>
          control' = "running" /\ thrown' = NoError]_vars
  /\ [][last'.call.op # "useOther" => others' = others]_vars
  /\ [][(control = "running" /\ control' = "unwinding") =>
          /\ RecordedOn(ReportEntries(thrown'), this)
          /\ Len(ReportEntries(thrown')) =
               Len(assertionErrors) + (IF last'.call.op \in StrictOps THEN 1 ELSE 0)]_vars
  /\ [][last'.call.op = "assertAll" =>
          (control' = "unwinding" <=> assertionErrors # <<>>)]_vars

\* C21 witness: assertAll has returned normally on a new instance while a
\* failure is pending on the other instance
C21_Witness ==
  /\ last.call.op = "assertAll"
  /\ control = "running"
  /\ assertionErrors = <<>>
  /\ Len(others) >= 1

\* ------------------------------------------------------------------------
\* The MagicAssert classes
\* "readme": the class printed in README.md; "lodash": the class that
\* compares with lodash; "trycatch": the class whose checks throw and catch.
\* The object under test is held in assertionErrors, as the Assert is.
\* ------------------------------------------------------------------------
Variants == {"readme", "lodash", "trycatch"}

\* the character sequence that opens the second line of a README message
PersonMark == "U+1F481 U+1F3FC"

\* new MagicAssert() of the class v
newMagicAssert(v) ==
  /\ control = "running"
  /\ assertionErrors' = <<>>
  /\ variant' = v
  /\ last' = [call |-> Call("newMagicAssert", Undefined, Undefined, <<>>), failed |-> FALSE]
  /\ recorded' = <<>>
  /\ scenario' = -1
  /\ UNCHANGED <<control, thrown, others, this, instance, heap, refs, tasks>>

\* README MagicAssert.isTrue
MagicAssertReadme_isTrue(value, message) ==
  /\ control = "running" /\ variant = "readme"
  /\ assertionErrors' =
       IF ~ToBoolean(value)
       THEN Append(assertionErrors,
                   [message |-> message \o <<"\n", PersonMark, " Expected: true, but got: ">>
                                \o ToString(value)])
       ELSE assertionErrors
  /\ UNCHANGED <<control, thrown>>

\* README MagicAssert.isFalse
MagicAssertReadme_isFalse(value, message) ==
  /\ control = "running" /\ variant = "readme"
  /\ assertionErrors' =
       IF ToBoolean(value)
       THEN Append(assertionErrors,
                   [message |-> message \o <<"\n", PersonMark, " Expected: false, but got: ">>
                                \o ToString(value)])
       ELSE assertionErrors
  /\ UNCHANGED <<control, thrown>>

\* README MagicAssert.printResults: the message that assert.fail throws
MagicAssertReadme_printResults(errors) ==
  <<"Assertion Errors(click to expand Allure report):\n">>
  \o Join([index \in 1..Len(errors) |->
             <<CrossMark, " [Assertion ">> \o NatToString((index - 1) + 1) \o <<"]: \n">>
             \o errors[index].message \o <<"\n">>],
          <<"\n">>)

\* README MagicAssert.assertAll: printResults throws, so the assignment that
\* follows the call is not reached
MagicAssertReadme_assertAll ==
  /\ control = "running" /\ variant = "readme"
  /\ IF Len(assertionErrors) > 0
     THEN /\ thrown' = MagicAssertReadme_printResults(assertionErrors)
          /\ control' = "unwinding"
          /\ UNCHANGED assertionErrors
     ELSE UNCHANGED <<assertionErrors, control, thrown>>

\* lodash MagicAssert.equals
MagicAssertLodash_equals(actual, expected, message) ==
  /\ control = "running" /\ variant = "lodash"
  /\ assertionErrors' =
       IF ~lodash_isEqual(actual, expected)
       THEN Append(assertionErrors,
                   FailureRecord(message \o <<"\nActual: ">> \o ToString(actual)
                                 \o <<" is not equal to Expected: ">> \o ToString(expected)
                                 \o <<"\n">>))
       ELSE assertionErrors
  /\ UNCHANGED <<control, thrown>>

\* lodash MagicAssert.notEqual
MagicAssertLodash_notEqual(actual, expected, message) ==
  /\ control = "running" /\ variant = "lodash"
  /\ assertionErrors' =
       IF ~(lodash_isEqual(actual, expected))
       THEN Append(assertionErrors,
                   FailureRecord(message \o <<"\nActual: ">> \o ToString(actual)
                                 \o <<" should not be equal to Expected: ">> \o ToString(expected)
                                 \o <<"\n">>))
       ELSE assertionErrors
  /\ UNCHANGED <<control, thrown>>

\* try/catch MagicAssert.isTrue: the error thrown in the try block is caught
\* and recorded
MagicAssertTry_isTrue(value, message) ==
  /\ control = "running" /\ variant = "trycatch"
  /\ assertionErrors' =
       IF value = Bool(TRUE)
       THEN Append(assertionErrors,
                   FailureRecord(message \o <<"\nActual: ">> \o ToString(value)
                                 \o <<"\nExpected: true\n">>))
       ELSE assertionErrors
  /\ UNCHANGED <<control, thrown>>

\* try/catch MagicAssert.isFalse
MagicAssertTry_isFalse(value, message) ==
  /\ control = "running" /\ variant = "trycatch"
  /\ assertionErrors' =
       IF value = Bool(TRUE)
       THEN Append(assertionErrors,
                   FailureRecord(message \o <<"\nActual: ">> \o ToString(value)
                                 \o <<"\nExpected: false\n">>))
       ELSE assertionErrors
  /\ UNCHANGED <<control, thrown>>

\* MagicAssert.assertAll of the lodash and the try/catch class
MagicAssert_assertAll ==
  /\ control = "running" /\ variant \in {"lodash", "trycatch"}
  /\ IF Len(assertionErrors) > 0
     THEN /\ assertionErrors' = <<>>
          /\ thrown' = throwAssertionErrors(assertionErrors)
          /\ control' = "unwinding"
     ELSE UNCHANGED <<assertionErrors, control, thrown>>

\* the object is new: no call was made on it
FreshMagic == last.call.op = "newMagicAssert"

\* a test of a MagicAssert: a new object, a check on any values (notEqual
\* may follow equals on the same values), then assertAll, once or again
\* after its error was caught
NextMagic ==
  \/ /\ last.call.op \in {"newAssert", "assertAll", "catchError"}
     /\ \E v \in Variants : newMagicAssert(v)
  \/ FreshMagic /\ \E value \in Values :
       MagicAssertReadme_isTrue(value, Description) /\ Note(Call("isTrue", value, Undefined, Description))
  \/ FreshMagic /\ \E value \in Values :
       MagicAssertReadme_isFalse(value, Description) /\ Note(Call("isFalse", value, Undefined, Description))
  \/ last.call.op # "newAssert" /\ MagicAssertReadme_assertAll /\ NoteOp("assertAll")
  \/ FreshMagic /\ \E actual \in Values, expected \in Values :
       MagicAssertLodash_equals(actual, expected, Description)
       /\ Note(Call("equals", actual, expected, Description))
  \/ FreshMagic /\ \E actual \in Values, expected \in Values :
       MagicAssertLodash_notEqual(actual, expected, Description)
       /\ Note(Call("notEqual", actual, expected, Description))
  \/ /\ last.call.op = "equals"
     /\ MagicAssertLodash_notEqual(last.call.actual, last.call.expected, Description)
     /\ Note(Call("notEqual", last.call.actual, last.call.expected, Description))
  \/ FreshMagic /\ \E value \in Values :
       MagicAssertTry_isTrue(value, Description) /\ Note(Call("isTrue", value, Undefined, Description))
  \/ FreshMagic /\ \E value \in Values :
       MagicAssertTry_isFalse(value, Description) /\ Note(Call("isFalse", value, Undefined, Description))
  \/ last.call.op # "newAssert" /\ MagicAssert_assertAll /\ NoteOp("assertAll")
  \/ catchError /\ NoteOp("catchError")

SpecMagic == Init /\ [][NextMagic]_vars

\* C26: in the MagicAssert of README.md, assertAll leaves the pending list
\* empty whenever it raises, so a second assertAll in a row, with no check
\* in between, does not raise.
C26_ReadmeAssertAllDrains ==
  [][(variant = "readme" /\ last'.call.op = "assertAll") =>
       /\ control' = "unwinding" => assertionErrors' = <<>>
       /\ last.call.op \in {"assertAll", "catchError"} => control' = "running"]_vars

\* C27: in the lodash MagicAssert, notEqual records a failure exactly when
\* actual and expected are deeply equal, that is on exactly the inputs on
\* which equals of that class records nothing.
C27_LodashNotEqualContract ==
  [][(variant = "lodash" /\ last'.call.op = "notEqual") =>
       /\ last'.failed <=> DeepEqual(last'.call.actual, last'.call.expected)
       /\ last.call.op = "equals" => (last'.failed <=> ~last.failed)]_vars

\* C28: in the try/catch MagicAssert, isTrue records nothing for true and
\* records a failure for false, so assertAll after isTrue(true) does not
\* raise.
C28_TryIsTrueContract ==
  /\ []((variant = "trycatch" /\ last.call.op = "isTrue") =>
          /\ last.call.actual = Bool(TRUE) => ~last.failed
          /\ last.call.actual = Bool(FALSE) => last.failed)
  /\ [][(/\ variant = "trycatch"
         /\ last.call.op = "isTrue"
         /\ last.call.actual = Bool(TRUE)
         /\ last'.call.op = "assertAll") => control' = "running"]_vars

\* ------------------------------------------------------------------------
\* AssertionLibrary (assertionLibrary.helper.ts)
\* heap holds the AssertionLibrary objects that were constructed, instance
\* is the static field (0 while undefined, else an index in heap), refs is
\* the object each call site got from getInstance, tasks are the calls of
\* the asynchronous element checks, each with the await it is suspended at
\* (pc), what it logged (log) and the error its promise rejected with.
\* ------------------------------------------------------------------------
\* a session calls at most MaxTasks element checks
MaxTasks == 2

\* the two characters that open every entry of the library's report
GarbledMark == "U+00E2 U+0152"

\* error.stack of the AssertionError that assert.fail(text) throws
AssertionErrorStack(text) == <<"AssertionError [ERR_ASSERTION]: ">> \o text \o <<StackFrames>>

\* throwAssertionErrors(errorMessageData) of the library: the message of the
\* AssertionError that assert.fail throws
AssertionLibrary_throwAssertionErrors(errorMessageData) ==
  <<"Assertion errors detected. See details below (expand in Allure report):\n">>
  \o Join([index \in 1..Len(errorMessageData) |->
             <<GarbledMark, " [Assertion ">> \o NatToString((index - 1) + 1) \o <<"]: \n">>
             \o errorMessageData[index].message \o <<"\n">>],
          <<"\n">>)

\* the message of the error that the driver rejects an awaited command with
DriverError == <<"element did not reach the awaited state">>

\* the texts a caller expects and the texts an element shows
ExpectedTexts == {<<"a">>}
ElementTexts == {<<"a">>, <<"b">>, <<"a", "b">>}

SoftElementOps == {"softElementVisible", "softElementTextEquals", "softElementTextContains",
                   "softElementDisabled", "softElementEnabled"}
HardElementOps == {"hardElementVisible", "hardElementTextEquals", "hardElementTextContains",
                   "hardElementDisabled", "hardElementEnabled"}
TextOps == {"softElementTextEquals", "softElementTextContains",
            "hardElementTextEquals", "hardElementTextContains"}

\* the outputMessage of the i-th element check of the session
ElementName(i) == <<"element ">> \o NatToString(i)

\* `[<op> - Element: ${outputMessage}]\n`
ElementTag(op, outputMessage) == <<"[", op, " - Element: ">> \o outputMessage \o <<"]\n">>

\* the call t logged an error: log.error(`<method> failed: ...`)
LoggedError(t) == t.log # <<>> /\ t.log[1] = "error"

\* the history variable after a step of the library: recorded lists the soft
\* element checks that logged a failure since the pending lists were last
\* empty
NoteLibrary(op, i) ==
  /\ recorded' = IF \A o \in 1..Len(heap') : heap'[o].assertionErrors = <<>>
                 THEN <<>>
                 ELSE IF /\ op \in SoftElementOps
                         /\ tasks[i].pc \notin {"resolved", "rejected"}
                         /\ LoggedError(tasks'[i])
                      THEN Append(recorded, i)
                      ELSE recorded
  /\ UNCHANGED <<assertionErrors, last, scenario, others, this, variant>>

\* a faulty getInstance that constructs a new object on every call; C30
\* tells it apart
getInstance_alwaysNew(site) ==
  /\ control = "running"
  /\ heap' = Append(heap, [assertionErrors |-> <<>>])
  /\ instance' = Len(heap) + 1
  /\ refs' = [refs EXCEPT ![site] = instance']
  /\ UNCHANGED <<tasks, control, thrown>>

\* AssertionLibrary.getInstance(), called at a call site that keeps the
\* returned object
getInstance(site) ==
  /\ control = "running"
  /\ IF instance = 0
     THEN /\ heap' = Append(heap, [assertionErrors |-> <<>>])
          /\ instance' = Len(heap) + 1
     ELSE UNCHANGED <<heap, instance>>
  /\ refs' = [refs EXCEPT ![site] = instance']
  /\ UNCHANGED <<tasks, control, thrown>>

\* a call site calls one of the element checks on its object: the call runs
\* up to its first await, `await $(selector)`, and returns a promise
callElementCheck(site, op, expectedText) ==
  /\ control = "running"
  /\ refs[site] # 0
  /\ Len(tasks) < MaxTasks
  /\ tasks' = Append(tasks, [op |-> op, this |-> refs[site], site |-> site,
                             expectedText |-> expectedText,
                             outputMessage |-> ElementName(Len(tasks) + 1),
                             pc |-> "$", log |-> <<>>, error |-> NoError])
  /\ UNCHANGED <<heap, instance, refs, control, thrown>>

\* the call i goes on to its next await
awaitNext(i, pc) ==
  /\ tasks' = [tasks EXCEPT ![i].pc = pc]
  /\ UNCHANGED heap

\* the call i logs log.info(`${method} ${word}: ...`), word being "passed"
\* or "failed", and its promise resolves
passes(i, method, word) ==
  /\ tasks' = [tasks EXCEPT ![i].pc = "resolved", ![i].log = <<"info", method, word>>]
  /\ UNCHANGED heap

\* log.error(`<method> failed: ...`) and this.assertionErrors.push(record)
\* in the call i; its promise resolves
pushes(i, method, record) ==
  /\ heap' = [heap EXCEPT ![tasks[i].this].assertionErrors = Append(@, record)]
  /\ tasks' = [tasks EXCEPT ![i].pc = "resolved", ![i].log = <<"error", method, "failed">>]

\* log.error(`<method> failed: ...`), this.assertionErrors.unshift(record)
\* and this.assertContent() in the catch block of the call i: the list is
\* emptied and the promise rejects with the AssertionError of the report
unshiftsAndAsserts(i, method, record) ==
  LET errorMessageData == <<record>> \o heap[tasks[i].this].assertionErrors IN
  /\ heap' = [heap EXCEPT ![tasks[i].this].assertionErrors = <<>>]
  /\ tasks' = [tasks EXCEPT ![i].pc = "rejected", ![i].log = <<"error", method, "failed">>,
                            ![i].error = AssertionLibrary_throwAssertionErrors(errorMessageData)]

\* the same two calls inside the try block of a hard text check: the outer
\* catch block catches the AssertionError of the report and throws
\* new Error(`[<op> - Element: ${outputMessage}]\n${errorMsg.message}\n
\* ${errorMsg.stack}`)
unshiftsAssertsAndRethrows(i, method, record) ==
  LET errorMessageData == <<record>> \o heap[tasks[i].this].assertionErrors
      report == AssertionLibrary_throwAssertionErrors(errorMessageData)
  IN /\ heap' = [heap EXCEPT ![tasks[i].this].assertionErrors = <<>>]
     /\ tasks' = [tasks EXCEPT ![i].pc = "rejected", ![i].log = <<"error", method, "failed">>,
                               ![i].error = ElementTag(tasks[i].op, tasks[i].outputMessage)
                                            \o report \o <<"\n">> \o AssertionErrorStack(report)]

\* the outer catch block of a hard text check catches the driver's error and
\* throws new Error(`[<op> - Element: ${outputMessage}]\n${errorMsg.message}
\* \n${errorMsg.stack}`)
rethrows(i, method) ==
  /\ tasks' = [tasks EXCEPT ![i].pc = "rejected", ![i].log = <<"error", method, "failed">>,
                            ![i].error = ElementTag(tasks[i].op, tasks[i].outputMessage)
                                         \o DriverError \o <<"\n">> \o ErrorStack(DriverError)]
  /\ UNCHANGED heap

\* the record of a check whose awaited command was rejected by the driver:
\* `[<op> - Element: ${outputMessage}]\n${outputMessage} <what>\n
\* ${errorMsg.message}\n${errorMsg.stack}`
StateRecord(op, outputMessage, what) ==
  [message |-> ElementTag(op, outputMessage) \o outputMessage \o <<what>>
               \o DriverError \o <<"\n">> \o ErrorStack(DriverError)]

\* the record of a text check that caught its own error = new Error(text):
\* error.message + '\n' + error.stack
MismatchRecord(text) == [message |-> text \o <<"\n">> \o ErrorStack(text)]

\* the call i of the method op is suspended at an await and the event loop
\* resumes it
running(i, op) ==
  /\ control = "running"
  /\ i \in 1..Len(tasks)
  /\ tasks[i].op = op
  /\ tasks[i].pc \notin {"resolved", "rejected"}
  /\ UNCHANGED <<instance, refs, control, thrown>>

\* a faulty softElementVisible that replaces the pending list by its own
\* record; C29 tells it apart
softElementVisible_overwrites(i) ==
  /\ running(i, "softElementVisible")
  /\ \/ tasks[i].pc = "$" /\ awaitNext(i, "waitForDisplayed")
     \/ tasks[i].pc = "waitForDisplayed" /\ passes(i, "softElementVisible", "passed")
     \/ /\ heap' = [heap EXCEPT ![tasks[i].this].assertionErrors =
                      <<StateRecord("softElementVisible", tasks[i].outputMessage,
                                    " is not displayed.\n")>>]
        /\ tasks' = [tasks EXCEPT ![i].pc = "resolved",
                                  ![i].log = <<"error", "softElementVisible", "failed">>]

\* softElementVisible: the next step of the call i. Either await resolves,
\* or the driver rejects it and the catch block records the failure
softElementVisible(i) ==
  /\ running(i, "softElementVisible")
  /\ \/ tasks[i].pc = "$" /\ awaitNext(i, "waitForDisplayed")
     \/ tasks[i].pc = "waitForDisplayed" /\ passes(i, "softElementVisible", "passed")
     \/ pushes(i, "softElementVisible",
               StateRecord("softElementVisible", tasks[i].outputMessage, " is not displayed.\n"))

\* softElementTextEquals: the next step of the call i
softElementTextEquals(i) ==
  /\ running(i, "softElementTextEquals")
  /\ \/ tasks[i].pc = "$" /\ awaitNext(i, "waitForDisplayed")
     \/ tasks[i].pc = "waitForDisplayed" /\ awaitNext(i, "getText")
     \/ /\ tasks[i].pc = "getText"
        /\ \E actualText \in ElementTexts :
             IF actualText # tasks[i].expectedText
             THEN pushes(i, "softElementTextEquals",
                         MismatchRecord(ElementTag("softElementTextEquals", tasks[i].outputMessage)
                                        \o <<"Actual: ">> \o actualText
                                        \o <<" is not equal to Expected: ">>
                                        \o tasks[i].expectedText \o <<"\n">>))
             ELSE passes(i, "softElementTextEquals", "passed")
     \/ pushes(i, "softElementTextEquals",
               [message |-> ElementTag("softElementTextEquals", tasks[i].outputMessage)
                            \o DriverError \o <<"\n">> \o ErrorStack(DriverError)])

\* softElementTextContains: the next step of the call i; the text that
\* includes the expected one is logged as `softElementTextContains failed`
\* by log.info
softElementTextContains(i) ==
  /\ running(i, "softElementTextContains")
  /\ \/ tasks[i].pc = "$" /\ awaitNext(i, "waitForDisplayed")
     \/ tasks[i].pc = "waitForDisplayed" /\ awaitNext(i, "getText")
     \/ /\ tasks[i].pc = "getText"
        /\ \E actualText \in ElementTexts :
             IF ~IsSubstring(tasks[i].expectedText, actualText)
             THEN pushes(i, "softElementTextContains",
                         MismatchRecord(ElementTag("softElementTextContains", tasks[i].outputMessage)
                                        \o <<"Actual: ">> \o actualText
                                        \o <<" does not include Expected: ">>
                                        \o tasks[i].expectedText \o <<"\n">>))
             ELSE passes(i, "softElementTextContains", "failed")
     \/ pushes(i, "softElementTextContains",
               [message |-> ElementTag("softElementTextContains", tasks[i].outputMessage)
                            \o DriverError \o <<"\n">> \o ErrorStack(DriverError)])

\* softElementDisabled: the next step of the call i
softElementDisabled(i) ==
  /\ running(i, "softElementDisabled")
  /\ \/ tasks[i].pc = "$" /\ awaitNext(i, "waitForEnabled")
     \/ tasks[i].pc = "waitForEnabled" /\ passes(i, "softElementDisabled", "passed")
     \/ pushes(i, "softElementDisabled",
               StateRecord("softElementDisabled", tasks[i].outputMessage, " is not disabled.\n"))

\* softElementEnabled: the next step of the call i
softElementEnabled(i) ==
  /\ running(i, "softElementEnabled")
  /\ \/ tasks[i].pc = "$" /\ awaitNext(i, "waitForEnabled")
     \/ tasks[i].pc = "waitForEnabled" /\ passes(i, "softElementEnabled", "passed")
     \/ pushes(i, "softElementEnabled",
               StateRecord("softElementEnabled", tasks[i].outputMessage, " is not enabled.\n"))

\* hardElementVisible: the next step of the call i. Either await resolves,
\* or the driver rejects it and the catch block puts the failure first and
\* calls assertContent
hardElementVisible(i) ==
  /\ running(i, "hardElementVisible")
  /\ \/ tasks[i].pc = "$" /\ awaitNext(i, "waitForDisplayed")
     \/ tasks[i].pc = "waitForDisplayed" /\ passes(i, "hardElementVisible", "passed")
     \/ unshiftsAndAsserts(i, "hardElementVisible",
                           StateRecord("hardElementVisible", tasks[i].outputMessage,
                                       " should be displayed.\n"))

\* hardElementTextEquals: the next step of the call i; its log lines name
\* hardElementVisible. A text that differs is put first and reported through
\* assertContent, whose error the outer catch block wraps; an await that the
\* driver rejects reaches the outer catch block only
hardElementTextEquals(i) ==
  /\ running(i, "hardElementTextEquals")
  /\ \/ tasks[i].pc = "$" /\ awaitNext(i, "waitForDisplayed")
     \/ tasks[i].pc = "waitForDisplayed" /\ awaitNext(i, "getText")
     \/ /\ tasks[i].pc = "getText"
        /\ \E actualText \in ElementTexts :
             IF actualText # tasks[i].expectedText
             THEN unshiftsAssertsAndRethrows(i, "hardElementVisible",
                    MismatchRecord(ElementTag("hardElementTextEquals", tasks[i].outputMessage)
                                   \o <<"Actual: ">> \o actualText
                                   \o <<" was supposed to be equal to Expected: ">>
                                   \o tasks[i].expectedText \o <<"\n">>))
             ELSE passes(i, "hardElementVisible", "passed")
     \/ rethrows(i, "hardElementVisible")

\* hardElementTextContains: the next step of the call i
hardElementTextContains(i) ==
  /\ running(i, "hardElementTextContains")
  /\ \/ tasks[i].pc = "$" /\ awaitNext(i, "waitForDisplayed")
     \/ tasks[i].pc = "waitForDisplayed" /\ awaitNext(i, "getText")
     \/ /\ tasks[i].pc = "getText"
        /\ \E actualText \in ElementTexts :
             IF ~IsSubstring(tasks[i].expectedText, actualText)
             THEN unshiftsAssertsAndRethrows(i, "hardElementTextContains",
                    MismatchRecord(ElementTag("hardElementTextContains", tasks[i].outputMessage)
                                   \o <<"Actual: ">> \o actualText
                                   \o <<" does not contain Expected: ">>
                                   \o tasks[i].expectedText \o <<"\n">>))
             ELSE passes(i, "hardElementTextContains", "passed")
     \/ rethrows(i, "hardElementTextContains")

\* hardElementDisabled: the next step of the call i
hardElementDisabled(i) ==
  /\ running(i, "hardElementDisabled")
  /\ \/ tasks[i].pc = "$" /\ awaitNext(i, "waitForEnabled")
     \/ tasks[i].pc = "waitForEnabled" /\ passes(i, "hardElementDisabled", "passed")
     \/ unshiftsAndAsserts(i, "hardElementDisabled",
                           StateRecord("hardElementDisabled", tasks[i].outputMessage,
                                       " is not disabled.\n"))

\* hardElementEnabled: the next step of the call i
hardElementEnabled(i) ==
  /\ running(i, "hardElementEnabled")
  /\ \/ tasks[i].pc = "$" /\ awaitNext(i, "waitForEnabled")
     \/ tasks[i].pc = "waitForEnabled" /\ passes(i, "hardElementEnabled", "passed")
     \/ unshiftsAndAsserts(i, "hardElementEnabled",
                           StateRecord("hardElementEnabled", tasks[i].outputMessage,
                                       " is not enabled.\n"))

\* assertContent(), called at a call site on its object: it throws the
\* report when failures are pending, after emptying the list
assertContent(site) ==
  /\ control = "running"
  /\ refs[site] # 0
  /\ IF Len(heap[refs[site]].assertionErrors) > 0
     THEN /\ heap' = [heap EXCEPT ![refs[site]].assertionErrors = <<>>]
          /\ thrown' = AssertionLibrary_throwAssertionErrors(heap[refs[site]].assertionErrors)
          /\ control' = "unwinding"
     ELSE UNCHANGED <<heap, control, thrown>>
  /\ UNCHANGED <<instance, refs, tasks>>

\* the call site catches the error that assertContent threw
catchAssertContent ==
  /\ catchError
  /\ UNCHANGED <<heap, instance, refs, tasks>>

\* the call site of the i-th element check of the session: the two call
\* sites take turns
SiteOf(i) == IF i % 2 = 1 THEN 1 ELSE 2

\* a session with the library: the call sites get the instance, call
\* element checks on it in turn, which the event loop resumes in any order,
\* and call assertContent
NextLibrary ==
  \/ \E site \in Sites : getInstance(site) /\ NoteLibrary("getInstance", 0)
  \/ \E op \in SoftElementOps \cup HardElementOps :
       \E expectedText \in (IF op \in TextOps THEN ExpectedTexts ELSE {<<>>}) :
         callElementCheck(SiteOf(Len(tasks) + 1), op, expectedText)
         /\ NoteLibrary("callElementCheck", 0)
  \/ \E i \in 1..Len(tasks) : softElementVisible(i) /\ NoteLibrary(tasks[i].op, i)
  \/ \E i \in 1..Len(tasks) : softElementTextEquals(i) /\ NoteLibrary(tasks[i].op, i)
  \/ \E i \in 1..Len(tasks) : softElementTextContains(i) /\ NoteLibrary(tasks[i].op, i)
  \/ \E i \in 1..Len(tasks) : softElementDisabled(i) /\ NoteLibrary(tasks[i].op, i)
  \/ \E i \in 1..Len(tasks) : softElementEnabled(i) /\ NoteLibrary(tasks[i].op, i)
  \/ \E i \in 1..Len(tasks) : hardElementVisible(i) /\ NoteLibrary(tasks[i].op, i)
  \/ \E i \in 1..Len(tasks) : hardElementTextEquals(i) /\ NoteLibrary(tasks[i].op, i)
  \/ \E i \in 1..Len(tasks) : hardElementTextContains(i) /\ NoteLibrary(tasks[i].op, i)
  \/ \E i \in 1..Len(tasks) : hardElementDisabled(i) /\ NoteLibrary(tasks[i].op, i)
  \/ \E i \in 1..Len(tasks) : hardElementEnabled(i) /\ NoteLibrary(tasks[i].op, i)
  \/ \E site \in Sites : assertContent(site) /\ NoteLibrary("assertContent", 0)
  \/ catchAssertContent /\ NoteLibrary("catchError", 0)

SpecLibrary == Init /\ [][NextLibrary]_vars

\* ------------------------------------------------------------------------
\* Claims about the AssertionLibrary
\* ------------------------------------------------------------------------
\* the pending list of the shared instance
Pending == IF instance = 0 THEN <<>> ELSE heap[instance].assertionErrors

\* the record r is the failure of the element check t: it opens with the
\* method's name and the caller's description of the element
RecordOf(r, t) ==
  /\ Len(r.message) >= 3 + Len(t.outputMessage)
  /\ r.message[2] = t.op
  /\ SubSeq(r.message, 4, 3 + Len(t.outputMessage)) = t.outputMessage

\* the call i was suspended and this step ran it to its end
Finishes(i) ==
  /\ i \in 1..Len(tasks)
  /\ tasks[i].pc \notin {"resolved", "rejected"}
  /\ tasks'[i].pc \in {"resolved", "rejected"}

\* the text lists the record r as its entry number index
ListsAt(text, index, r) ==
  IsSubstring(<<GarbledMark, " [Assertion ">> \o NatToString(index) \o <<"]: \n">>
              \o r.message \o <<"\n">>, text)

\* C25: whenever a hard element check fails, because the element never
\* reaches the awaited state or because its text does not match, the call
\* rejects with an error whose report lists that hard failure first, then
\* every soft failure that was pending, in recorded order, and the pending
\* list is empty afterwards
C25_HardFailureReportsAndDrains ==
  [][\A i \in 1..Len(tasks) :
       (tasks[i].op \in HardElementOps /\ Finishes(i) /\ LoggedError(tasks'[i])) =>
         /\ tasks'[i].pc = "rejected"
         /\ IsSubstring(<<GarbledMark, " [Assertion ", "1", "]: \n">>
                        \o <<"[", tasks[i].op, " - Element: ">> \o tasks[i].outputMessage,
                        tasks'[i].error)
         /\ \A k \in 1..Len(Pending) : ListsAt(tasks'[i].error, k + 1, Pending[k])
         /\ heap'[tasks[i].this].assertionErrors = <<>>]_vars

\* C29: for any interleaving of the asynchronous soft element checks on the
\* instance, each check that fails adds exactly one record, its own, at the
\* end of the pending list, a check that passes or goes on to its next await
\* leaves the list alone, and so the pending list holds exactly one record
\* for each check that failed since it was last empty, in the order in which
\* the checks failed
C29_OneRecordPerFailingSoftCheck ==
  /\ [](/\ Len(Pending) = Len(recorded)
        /\ \A k \in 1..Len(recorded) : RecordOf(Pending[k], tasks[recorded[k]])
        /\ \A j \in 1..Len(recorded), k \in 1..Len(recorded) :
             recorded[j] = recorded[k] => j = k)
  /\ [][\A i \in 1..Len(tasks) :
          (tasks[i].op \in SoftElementOps /\ tasks'[i] # tasks[i]) =>
            IF LoggedError(tasks'[i])
            THEN /\ tasks'[i].pc = "resolved"
                 /\ Len(Pending') = Len(Pending) + 1
                 /\ SubSeq(Pending', 1, Len(Pending)) = Pending
                 /\ RecordOf(Pending'[Len(Pending')], tasks[i])
            ELSE heap' = heap]_vars

\* two soft element checks ran concurrently and both failed, the one that
\* was called second first
C29_Witness ==
  /\ Len(tasks) = 2
  /\ \A i \in 1..2 : tasks[i].op \in SoftElementOps /\ LoggedError(tasks[i])
  /\ recorded = <<2, 1>>
  /\ Len(Pending) = 2

\* C30: getInstance creates at most one instance and hands that instance to
\* every call site, so the call sites share one pending list: a step either
\* keeps every pending record, or it is a drain (assertContent at any call
\* site, or a failing hard check called from any call site) that reports
\* every pending record, whichever call site recorded it
C30_OneSharedInstance ==
  /\ [](/\ Len(heap) <= 1
        /\ \A site \in Sites : refs[site] \in {0, instance}
        /\ \A i \in 1..Len(tasks) : tasks[i].this = instance)
  /\ [][\/ /\ Len(Pending') >= Len(Pending)
           /\ SubSeq(Pending', 1, Len(Pending)) = Pending
        \/ /\ Pending' = <<>>
           /\ control' = "unwinding"
           /\ thrown' = AssertionLibrary_throwAssertionErrors(Pending)
        \/ /\ Pending' = <<>>
           /\ \E i \in 1..Len(tasks) :
                /\ tasks[i].op \in HardElementOps
                /\ Finishes(i)
                /\ tasks'[i].pc = "rejected"
                /\ \A k \in 1..Len(Pending) : ListsAt(tasks'[i].error, k + 1, Pending[k])]_vars

\* the first call site recorded a failure and a hard check called from the
\* second call site reported it
C30_Witness ==
  /\ Len(tasks) = 2
  /\ refs[1] # 0 /\ refs[1] = refs[2]
  /\ tasks[1].site = 1 /\ tasks[1].op \in SoftElementOps /\ LoggedError(tasks[1])
  /\ tasks[2].site = 2 /\ tasks[2].op \in HardElementOps /\ tasks[2].pc = "rejected"
  /\ IsSubstring(ElementTag(tasks[1].op, tasks[1].outputMessage), tasks[2].error)
  /\ Pending = <<>>

====
